---- MODULE Spec2Model ----
(***************************************************************************)
(* Model of the run-time evaluation orchestrator of the LLM evaluation     *)
(* studio (backend/app/services/eval_service.py, backend/app/api/eval.py,  *)
(* backend/app/utils/llm_client.py, backend/app/evaluators).               *)
(*                                                                         *)
(* One task with its case set is modelled.  runs holds the EvalRun rows in  *)
(* creation order; results[r] and events[r] hold the EvalResult rows of    *)
(* run r and the events broadcast for it, each in creation order.          *)
(* Every coroutine is cut at its await points: the code between two awaits *)
(* runs atomically on the event loop and is one action here.               *)
(*                                                                         *)
(* Texts (LLM outputs, expected outputs) are sequences of one-character    *)
(* strings; messages (run.error, execution_error, reasons) are strings.    *)
(***************************************************************************)
EXTENDS Integers, Sequences, FiniteSets, TLC

VARIABLES task, cases, runs, results, events, creating, ws, sse,
          active_connections, sending, sockets, inbox,
          evaluators, task_evaluators, call, flushing

\* the state of the ConnectionManager and of the WebSocket clients
manager == <<active_connections, sending, sockets, inbox>>

\* the evaluators table, the task's task_evaluators rows, the last call made
\* on EvaluatorService or on a pure component with its outcome, and the
\* create and update requests that wait at `await self.session.flush()`
registry == <<evaluators, task_evaluators, call, flushing>>

vars == <<task, cases, runs, results, events, creating, ws, sse, manager, registry>>

(* ------------------------------ bounds -------------------------------- *)

\* largest number of test cases in the case set (concurrent path)
MaxCases == 3

\* largest configured task.concurrency
MaxConcurrency == 3

\* largest number of tokens in a text handed to JsonRepair.repair
MaxTokens == 5

\* largest number of evaluators created on top of the seeded ones
MaxCreated == 2

\* largest number of test cases when two reruns execute side by side
MaxPairCases == 2

(* ------------------------- values and helpers ------------------------- *)

\* Python None for an optional text (actual_output)
None == <<"None">>

\* Python None for an optional message (execution_error, run.error)
NoError == "None"

\* run.summary / task.summary not yet written (NULL column)
NoSummary == [total |-> -1, passed |-> -1, failed |-> -1]

Max(a, b) == IF a >= b THEN a ELSE b

Min(a, b) == IF a <= b THEN a ELSE b

Whitespace == {" ", "\t"}

\* str.split() with no argument: the maximal runs of non-whitespace characters
RECURSIVE split(_)
split(s) ==
    IF s = <<>> THEN <<>>
    ELSE IF Head(s) \in Whitespace THEN split(Tail(s))
    ELSE LET rest == split(Tail(s))
         IN  IF Len(s) > 1 /\ s[2] \notin Whitespace
             THEN <<(<<Head(s)>> \o Head(rest))>> \o Tail(rest)
             ELSE <<(<<Head(s)>>)>> \o rest

\* " ".join(words)
RECURSIVE join(_)
join(words) ==
    IF words = <<>> THEN <<>>
    ELSE IF Len(words) = 1 THEN Head(words)
    ELSE Head(words) \o <<" ">> \o join(Tail(words))

\* ExactMatchEvaluator.evaluate comparing the strings as they are
ExactMatchEvaluateAsGiven(expected, actual) ==
    IF expected = <<>> /\ actual = <<>> THEN [passed |-> TRUE, reason |-> "Both empty"]
    ELSE IF expected = <<>> THEN [passed |-> FALSE, reason |-> "Expected output is empty"]
    ELSE IF actual = <<>> THEN [passed |-> FALSE, reason |-> "Actual output is empty"]
    ELSE IF expected = actual
         THEN [passed |-> TRUE, reason |-> "Exact match"]
         ELSE [passed |-> FALSE, reason |-> "Mismatch"]

\* ExactMatchEvaluator.evaluate(expected, actual) -> (is_passed, reason)
ExactMatchEvaluate(expected, actual) ==
    IF expected = <<>> /\ actual = <<>> THEN [passed |-> TRUE, reason |-> "Both empty"]
    ELSE IF expected = <<>> THEN [passed |-> FALSE, reason |-> "Expected output is empty"]
    ELSE IF actual = <<>> THEN [passed |-> FALSE, reason |-> "Actual output is empty"]
    ELSE IF join(split(expected)) = join(split(actual))
         THEN [passed |-> TRUE, reason |-> "Exact match"]
         ELSE [passed |-> FALSE, reason |-> "Mismatch"]

(* ---------------------------- Python values --------------------------- *)

\* Python values (of a template, a context, a parsed JSON text): <<type name,
\* content>>.  The
\* content of a str is its text, of a dict the function from its keys (texts)
\* to values, of a list the sequence of its items, of an int its digits.
PyStr(text) == <<"str", text>>

PyDict(items) == <<"dict", items>>

PyList(items) == <<"list", items>>

PyInt(digits) == <<"int", digits>>

PyNone == <<"NoneType", <<>>>>

\* a bound method of a built-in object, what getattr("...", "upper") returns
PyMethod == <<"builtin_function_or_method", <<>>>>

(* ------------------------------ JSON texts ----------------------------- *)

\* str.strip(): leading and trailing whitespace removed
RECURSIVE lstrip(_)
lstrip(s) == IF s # <<>> /\ Head(s) \in Whitespace THEN lstrip(Tail(s)) ELSE s

RECURSIVE rstrip(_)
rstrip(s) ==
    IF s # <<>> /\ s[Len(s)] \in Whitespace THEN rstrip(SubSeq(s, 1, Len(s) - 1)) ELSE s

strip(s) == rstrip(lstrip(s))

\* the first index i >= from at which pattern occurs in s, or 0 (str.find + 1)
RECURSIVE find(_, _, _)
find(s, pattern, from) ==
    IF from + Len(pattern) - 1 > Len(s) THEN 0
    ELSE IF SubSeq(s, from, from + Len(pattern) - 1) = pattern THEN from
    ELSE find(s, pattern, from + 1)

\* s.count(c) for a single character
count(s, c) == Cardinality({i \in DOMAIN s : s[i] = c})

\* the index of the first character at or after i that is not whitespace
RECURSIVE SkipWhitespace(_, _)
SkipWhitespace(s, i) ==
    IF i <= Len(s) /\ s[i] \in Whitespace THEN SkipWhitespace(s, i + 1) ELSE i

\* the index after the run of digits that starts at i
RECURSIVE SkipDigits(_, _)
SkipDigits(s, i) ==
    IF i <= Len(s) /\ s[i] \in {"1"} THEN SkipDigits(s, i + 1) ELSE i

\* json.JSONDecodeError raised by the decoder
JSONDecodeError == [ok |-> FALSE, val |-> <<>>, end |-> 0]

\* the letters of the texts of this model; none of them starts a number, an
\* exponent or one of the keywords true, false, NaN and Infinity
Letters == {"j", "s", "o", "n", "u", "l", "k", "x", "a", "b"}

\* the index after the run of [a-zA-Z0-9_] characters that starts at i
RECURSIVE SkipWord(_, _)
SkipWord(s, i) ==
    IF i <= Len(s) /\ s[i] \in Letters \cup {"1"} THEN SkipWord(s, i + 1) ELSE i

\* json.loads, the decoder at index i of s: numbers (runs of the digit 1),
\* string literals, null, arrays and objects.  A parsed value is
\* <<type, content>>; `end` is the index after it.  The texts of this model
\* hold no backslash or sign, so a literal ends at the next quote, and every
\* other character where a value is expected is an error.
RECURSIVE scan_once(_, _), parse_array(_, _, _), parse_object(_, _, _)
scan_once(s, i) ==
    IF i > Len(s) THEN JSONDecodeError
    ELSE IF s[i] = "1"
         THEN [ok |-> TRUE, val |-> <<"int", SubSeq(s, i, SkipDigits(s, i) - 1)>>,
               end |-> SkipDigits(s, i)]
    ELSE IF s[i] = "\""
         THEN LET j == find(s, <<"\"">>, i + 1)
              IN  IF j = 0 \/ \E m \in (i + 1)..(j - 1) : s[m] = "\t"
                  THEN JSONDecodeError
                  ELSE [ok |-> TRUE, val |-> <<"str", SubSeq(s, i + 1, j - 1)>>,
                        end |-> j + 1]
    ELSE IF s[i] = "["
         THEN LET k == SkipWhitespace(s, i + 1)
              IN  IF k <= Len(s) /\ s[k] = "]"
                  THEN [ok |-> TRUE, val |-> <<"list", <<>>>>, end |-> k + 1]
                  ELSE parse_array(s, k, <<>>)
    ELSE IF s[i] = "{"
         THEN LET k == SkipWhitespace(s, i + 1)
              IN  IF k <= Len(s) /\ s[k] = "}"
                  THEN [ok |-> TRUE, val |-> <<"dict", <<>>>>, end |-> k + 1]
                  ELSE parse_object(s, k, <<>>)
    ELSE IF i + 3 <= Len(s) /\ SubSeq(s, i, i + 3) = <<"n", "u", "l", "l">>
         THEN [ok |-> TRUE, val |-> PyNone, end |-> i + 4]
    ELSE JSONDecodeError

\* the elements of an array from index i on; values holds the ones before
parse_array(s, i, values) ==
    LET v == scan_once(s, i)
        k == SkipWhitespace(s, v.end)
    IN  IF ~v.ok \/ k > Len(s) THEN JSONDecodeError
        ELSE IF s[k] = ","
             THEN parse_array(s, SkipWhitespace(s, k + 1), Append(values, v.val))
        ELSE IF s[k] = "]"
             THEN [ok |-> TRUE, val |-> <<"list", Append(values, v.val)>>, end |-> k + 1]
        ELSE JSONDecodeError

\* the members of an object from the key at index i on; items holds the ones
\* before (a key that comes twice keeps its last value)
parse_object(s, i, items) ==
    LET key == IF i <= Len(s) /\ s[i] = "\"" THEN scan_once(s, i) ELSE JSONDecodeError
        c   == SkipWhitespace(s, key.end)
        v   == scan_once(s, SkipWhitespace(s, c + 1))
        k   == SkipWhitespace(s, v.end)
        all == [x \in DOMAIN items \cup {key.val[2]} |->
                   IF x = key.val[2] THEN v.val ELSE items[x]]
    IN  IF ~key.ok THEN JSONDecodeError
        ELSE IF c > Len(s) THEN JSONDecodeError
        ELSE IF s[c] # ":" THEN JSONDecodeError
        ELSE IF ~v.ok THEN JSONDecodeError
        ELSE IF k > Len(s) THEN JSONDecodeError
        ELSE IF s[k] = ","
             THEN parse_object(s, SkipWhitespace(s, k + 1), all)
        ELSE IF s[k] = "}"
             THEN [ok |-> TRUE, val |-> <<"dict", all>>, end |-> k + 1]
        ELSE JSONDecodeError

\* json.loads(s): one value with whitespace around it and nothing else
json_loads(s) ==
    LET v == scan_once(s, SkipWhitespace(s, 1))
    IN  IF v.ok /\ SkipWhitespace(s, v.end) = Len(s) + 1
        THEN [ok |-> TRUE, val |-> v.val, end |-> v.end]
        ELSE JSONDecodeError

(* ------------------------------ JsonRepair ----------------------------- *)

\* the grave accent U+0060, a character that a TLA+ string cannot hold
Backtick == "grave"

\* a markdown code fence: three grave accents
Fence == <<Backtick, Backtick, Backtick>>

\* re.search(opening + whitespace + lazy group + whitespace + fence, text):
\* group(1).strip() of the leftmost match, or None.  The match starts at the
\* first opening that has a fence after it, and the lazy group ends before
\* the first such fence.
SearchFenced(text, opening) ==
    LET p == find(text, opening, 1)
        q == IF p = 0 THEN 0 ELSE find(text, Fence, p + Len(opening))
    IN  IF q = 0 THEN None ELSE strip(SubSeq(text, p + Len(opening), q - 1))

\* JsonRepair._extract_json_from_markdown
_extract_json_from_markdown(text) ==
    IF SearchFenced(text, Fence \o <<"j", "s", "o", "n">>) # None
    THEN SearchFenced(text, Fence \o <<"j", "s", "o", "n">>)
    ELSE IF SearchFenced(text, Fence) # None
         THEN SearchFenced(text, Fence)
         ELSE text

\* JsonRepair._is_valid_json
_is_valid_json(json_str) == json_str # <<>> /\ json_loads(json_str).ok

\* re.sub(r',(\s*[}\]])', r'\1', s): a comma before a closing bracket goes
RECURSIVE TrailingCommas(_, _)
TrailingCommas(s, i) ==
    IF i > Len(s) THEN <<>>
    ELSE LET k == SkipWhitespace(s, i + 1)
         IN  IF s[i] = "," /\ k <= Len(s) /\ s[k] \in {"]", "}"}
             THEN SubSeq(s, i + 1, k) \o TrailingCommas(s, k + 1)
             ELSE <<s[i]>> \o TrailingCommas(s, i + 1)

\* re.sub(r',\s*([}\]])', r'\1', s): the comma and the whitespace go
RECURSIVE ExtraCommas(_, _)
ExtraCommas(s, i) ==
    IF i > Len(s) THEN <<>>
    ELSE LET k == SkipWhitespace(s, i + 1)
         IN  IF s[i] = "," /\ k <= Len(s) /\ s[k] \in {"]", "}"}
             THEN <<s[k]>> \o ExtraCommas(s, k + 1)
             ELSE <<s[i]>> \o ExtraCommas(s, i + 1)

\* re.sub(r'([}\]])\s*([{[])', r'\1,\2', s)
RECURSIVE MissingCommas(_, _)
MissingCommas(s, i) ==
    IF i > Len(s) THEN <<>>
    ELSE LET k == SkipWhitespace(s, i + 1)
         IN  IF s[i] \in {"]", "}"} /\ k <= Len(s) /\ s[k] \in {"[", "{"}
             THEN <<s[i], ",", s[k]>> \o MissingCommas(s, k + 1)
             ELSE <<s[i]>> \o MissingCommas(s, i + 1)

\* JsonRepair._fix_structural_issues.  The two comment patterns need a "/",
\* which no text of this model holds.
_fix_structural_issues(json_str) ==
    MissingCommas(ExtraCommas(TrailingCommas(json_str, 1), 1), 1)

\* re.sub(r'([{,]\s*)([a-zA-Z_][a-zA-Z0-9_]*)(\s*:)', r'\1"\2"\3', s): a bare
\* key after "{" or "," gets double quotes
RECURSIVE BareKeys(_, _)
BareKeys(s, i) ==
    IF i > Len(s) THEN <<>>
    ELSE LET k == SkipWhitespace(s, i + 1)
             e == SkipWord(s, k)
             c == SkipWhitespace(s, e)
         IN  IF s[i] \in {"{", ","} /\ k <= Len(s) /\ s[k] \in Letters
                  /\ c <= Len(s) /\ s[c] = ":"
             THEN SubSeq(s, i, k - 1) \o <<"\"">> \o SubSeq(s, k, e - 1) \o <<"\"">>
                     \o SubSeq(s, e, c) \o BareKeys(s, c + 1)
             ELSE <<s[i]>> \o BareKeys(s, i + 1)

\* JsonRepair._fix_quotes
_fix_quotes(json_str) == BareKeys(json_str, 1)

\* the loop of _fix_keywords_and_values from index i on: outside a
\* double-quoted string, a single-quoted string gets double quotes
RECURSIVE SingleQuotes(_, _, _)
SingleQuotes(s, i, in_string) ==
    IF i > Len(s) THEN <<>>
    ELSE IF s[i] = "\"" THEN <<s[i]>> \o SingleQuotes(s, i + 1, ~in_string)
    ELSE IF ~in_string /\ s[i] = "'" /\ find(s, <<"'">>, i + 1) # 0
         THEN LET j == find(s, <<"'">>, i + 1)
              IN  <<"\"">> \o SubSeq(s, i + 1, j - 1) \o <<"\"">>
                    \o SingleQuotes(s, j + 1, in_string)
    ELSE <<s[i]>> \o SingleQuotes(s, i + 1, in_string)

\* re.sub(r':\s*([a-zA-Z_][a-zA-Z0-9_]*)([,\s}])', ..., s): a bare word after
\* ":" gets double quotes unless it is a keyword (of which the texts of this
\* model can only hold null); the whitespace after ":" becomes one space
RECURSIVE BareValues(_, _)
BareValues(s, i) ==
    IF i > Len(s) THEN <<>>
    ELSE LET k == SkipWhitespace(s, i + 1)
             e == SkipWord(s, k)
         IN  IF s[i] = ":" /\ k <= Len(s) /\ s[k] \in Letters
                  /\ e <= Len(s) /\ s[e] \in {",", "}"} \cup Whitespace
             THEN <<":", " ">>
                     \o (IF SubSeq(s, k, e - 1) = <<"n", "u", "l", "l">>
                         THEN SubSeq(s, k, e - 1)
                         ELSE <<"\"">> \o SubSeq(s, k, e - 1) \o <<"\"">>)
                     \o <<s[e]>> \o BareValues(s, e + 1)
             ELSE <<s[i]>> \o BareValues(s, i + 1)

\* JsonRepair._fix_keywords_and_values.  The keyword patterns need the words
\* None, TRUE or FALSE, which no text of this model holds.
_fix_keywords_and_values(json_str) == BareValues(SingleQuotes(json_str, 1, FALSE), 1)

\* JsonRepair._final_cleanup: the pattern needs a newline between two quotes
_final_cleanup(json_str) == json_str

\* c repeated max(0, n) times
Repeated(c, n) == [i \in 1..n |-> c]

\* JsonRepair._aggressive_repair: the missing closing braces, then the missing
\* closing brackets are appended
_aggressive_repair(json_str) ==
    json_str
      \o Repeated("}", count(json_str, "{") - count(json_str, "}"))
      \o Repeated("]", count(json_str, "[") - count(json_str, "]"))

\* JsonRepair.repair: the repaired text, or None
repair(json_str) ==
    LET extracted == _extract_json_from_markdown(json_str)
        repaired  == _final_cleanup(_fix_keywords_and_values(_fix_quotes(
                         _fix_structural_issues(extracted))))
    IN  IF json_str = <<>> THEN None
        ELSE IF _is_valid_json(extracted) THEN extracted
        ELSE IF _is_valid_json(repaired) THEN repaired
        ELSE IF _is_valid_json(_aggressive_repair(repaired)) THEN _aggressive_repair(repaired)
        ELSE None

\* JsonRepair.repair_and_parse
repair_and_parse(json_str) ==
    IF repair(json_str) # None THEN json_loads(repair(json_str)) ELSE JSONDecodeError

(* -------------------------- JsonCompareEvaluator ----------------------- *)

\* JsonCompareEvaluator._parse_json: the parsed value of text, directly or
\* after JsonRepair.repair
_parse_json(text) ==
    IF strip(text) = <<>> THEN JSONDecodeError
    ELSE IF json_loads(strip(text)).ok THEN json_loads(strip(text))
    ELSE repair_and_parse(strip(text))

\* the members of a set one after the other, as a for loop over a Python set
\* visits them (in an order the code does not fix)
RECURSIVE Listed(_)
Listed(keys) ==
    IF keys = {} THEN <<>>
    ELSE LET key == CHOOSE k \in keys : TRUE
         IN  <<key>> \o Listed(keys \ {key})

\* differences.append(f"{path}.{key}: ...") for each of the keys
KeyDifferences(keys, path, difference) ==
    [i \in DOMAIN keys |->
        [path |-> Append(path, <<"key", keys[i]>>), difference |-> difference]]

\* JsonCompareEvaluator._deep_compare: the differences, each with its path
\* (the keys and list indices from the root) in the order they are found
RECURSIVE _deep_compare(_, _, _), CompareItems(_, _, _, _), CompareKeys(_, _, _, _)
_deep_compare(expected, actual, path) ==
    IF expected[1] # actual[1]
    THEN <<[path |-> path, difference |-> "Type mismatch"]>>
    ELSE IF expected[1] = "dict"
         THEN KeyDifferences(Listed(DOMAIN expected[2] \ DOMAIN actual[2]), path,
                             "Missing key")
                \o KeyDifferences(Listed(DOMAIN actual[2] \ DOMAIN expected[2]), path,
                                  "Extra key")
                \o CompareKeys(expected[2], actual[2], path,
                               Listed(DOMAIN expected[2] \cap DOMAIN actual[2]))
    ELSE IF expected[1] = "list"
         THEN IF Len(expected[2]) # Len(actual[2])
              THEN <<[path |-> path, difference |-> "Length mismatch"]>>
              ELSE CompareItems(expected[2], actual[2], path, 1)
    ELSE IF expected[2] # actual[2]
         THEN <<[path |-> path, difference |-> "Value mismatch"]>>
         ELSE <<>>

\* for i, (e, a) in enumerate(zip(expected, actual)), from the i-th pair on
CompareItems(expected, actual, path, i) ==
    IF i > Len(expected) THEN <<>>
    ELSE _deep_compare(expected[i], actual[i], Append(path, <<"index", i - 1>>))
            \o CompareItems(expected, actual, path, i + 1)

\* for key in expected_keys & actual_keys, over the keys that are left
CompareKeys(expected, actual, path, keys) ==
    IF keys = <<>> THEN <<>>
    ELSE _deep_compare(expected[Head(keys)], actual[Head(keys)],
                       Append(path, <<"key", Head(keys)>>))
            \o CompareKeys(expected, actual, path, Tail(keys))

\* differences[:5], the differences a failing reason lists
MaxListed == 5

\* JsonCompareEvaluator.evaluate(expected, actual) -> (is_passed, reason), and
\* the differences the reason lists.  A parsed null is None, which evaluate
\* takes for a text that could not be parsed.
JsonCompareEvaluate(expected, actual) ==
    IF expected = <<>>
    THEN [passed |-> TRUE, reason |-> "No expected JSON to compare", listed |-> <<>>]
    ELSE IF ~json_loads(expected).ok
         THEN [passed |-> TRUE, reason |-> "Expected output is not valid JSON",
               listed |-> <<>>]
    ELSE IF ~_parse_json(actual).ok
         THEN [passed |-> FALSE, reason |-> "Actual output is not valid JSON",
               listed |-> <<>>]
    ELSE IF _parse_json(actual).val = PyNone
         THEN [passed |-> FALSE, reason |-> "Actual output is not valid JSON",
               listed |-> <<>>]
    ELSE LET differences ==
                 _deep_compare(json_loads(expected).val, _parse_json(actual).val, <<>>)
         IN  IF differences = <<>>
             THEN [passed |-> TRUE, reason |-> "JSON structures match", listed |-> <<>>]
             ELSE [passed |-> FALSE, reason |-> "Differences",
                   listed |-> SubSeq(differences, 1, Min(MaxListed, Len(differences)))]

\* the evaluator names EvalService.evaluators maps to an implementation
BuiltIn == {"exact_match", "json_compare"}

\* EvalService._get_evaluator(evaluator_type)().evaluate(expected, actual)
_get_evaluator(evaluator_type, expected, actual) ==
    IF evaluator_type = "exact_match" THEN ExactMatchEvaluate(expected, actual)
    ELSE JsonCompareEvaluate(expected, actual)

(* ---------------------------- TemplateRenderer ------------------------- *)

\* A text of a template is a sequence of tokens: the characters "$", "{", "}",
\* "." and whole words, which hold none of these characters.

\* str(value): the text of a str, the digits of an int, "None" for None and
\* the repr of any other object (one token stands for the repr)
str(value) ==
    CASE value[1] = "str"      -> value[2]
      [] value[1] = "int"      -> value[2]
      [] value[1] = "NoneType" -> <<"N", "o", "n", "e">>
      [] value[1] = "dict"     -> <<"repr(dict)">>
      [] value[1] = "list"     -> <<"repr(list)">>
      [] OTHER                 -> <<"repr(method)">>

\* hasattr(value, part) for a value that is not a dict: of the words of this
\* model only `upper` names an attribute, and only of a str
hasattr(value, part) == value[1] = "str" /\ part = <<"upper">>

\* var_path.split(".")
RECURSIVE split_dots(_)
split_dots(text) ==
    IF find(text, <<".">>, 1) = 0 THEN <<text>>
    ELSE <<SubSeq(text, 1, find(text, <<".">>, 1) - 1)>>
             \o split_dots(SubSeq(text, find(text, <<".">>, 1) + 1, Len(text)))

\* the loop of _resolve_variable over the parts that are left
RECURSIVE ResolveParts(_, _)
ResolveParts(parts, value) ==
    IF parts = <<>> THEN str(value)
    ELSE IF value[1] = "dict"
         THEN IF Head(parts) \notin DOMAIN value[2] \/ value[2][Head(parts)] = PyNone
              THEN <<>>
              ELSE ResolveParts(Tail(parts), value[2][Head(parts)])
    ELSE IF hasattr(value, Head(parts)) THEN ResolveParts(Tail(parts), PyMethod)
    ELSE <<>>

\* TemplateRenderer._resolve_variable
_resolve_variable(var_path, context) ==
    IF var_path = <<"model_name">>
    THEN IF <<"model_name">> \in DOMAIN context[2]
         THEN str(context[2][<<"model_name">>])
         ELSE <<>>
    ELSE ResolveParts(split_dots(var_path), context)

\* VARIABLE_PATTERN matches at index i of text: "$", "{", one or more tokens
\* other than "}", then "}".  The index of that "}", or 0.
MatchEnd(text, i) ==
    IF i + 1 <= Len(text) /\ text[i] = "$" /\ text[i + 1] = "{"
          /\ find(text, <<"}">>, i + 2) > i + 2
    THEN find(text, <<"}">>, i + 2)
    ELSE 0

\* _substitute_in_value on a str, from index i on: finditer and the join
RECURSIVE SubstituteText(_, _, _)
SubstituteText(text, i, context) ==
    IF i > Len(text) THEN <<>>
    ELSE IF MatchEnd(text, i) # 0
         THEN _resolve_variable(SubSeq(text, i + 2, MatchEnd(text, i) - 1), context)
                 \o SubstituteText(text, MatchEnd(text, i) + 1, context)
         ELSE <<text[i]>> \o SubstituteText(text, i + 1, context)

\* TemplateRenderer._substitute_in_value
RECURSIVE _substitute_in_value(_, _)
_substitute_in_value(value, context) ==
    CASE value[1] = "str"  -> PyStr(SubstituteText(value[2], 1, context))
      [] value[1] = "dict" ->
             PyDict([k \in DOMAIN value[2] |-> _substitute_in_value(value[2][k], context)])
      [] value[1] = "list" ->
             PyList([i \in DOMAIN value[2] |-> _substitute_in_value(value[2][i], context)])
      [] OTHER             -> value

\* TemplateRenderer.render_request_template: what it returns, or the error
render_request_template(template, context) ==
    IF template[1] # "dict"
    THEN [raised |-> "ValueError", rendered |-> PyNone]
    ELSE [raised |-> NoError, rendered |-> _substitute_in_value(template, context)]

\* the var_paths VARIABLE_PATTERN finds in a text from index i on
RECURSIVE MatchesInText(_, _)
MatchesInText(text, i) ==
    IF i > Len(text) THEN {}
    ELSE IF MatchEnd(text, i) # 0
         THEN {SubSeq(text, i + 2, MatchEnd(text, i) - 1)}
                 \cup MatchesInText(text, MatchEnd(text, i) + 1)
         ELSE MatchesInText(text, i + 1)

\* the var_paths _substitute_in_value resolves in a value
RECURSIVE Matches(_)
Matches(value) ==
    CASE value[1] = "str"  -> MatchesInText(value[2], 1)
      [] value[1] = "dict" -> UNION {Matches(value[2][k]) : k \in DOMAIN value[2]}
      [] value[1] = "list" -> UNION {Matches(value[2][i]) : i \in DOMAIN value[2]}
      [] OTHER             -> {}

(* ------------------------------ CodeEvaluator --------------------------- *)

\* str.lower() on the texts of this model
lower(text) ==
    [i \in DOMAIN text |->
        CASE text[i] \in {"PASSED", "Passed"} -> "passed"
          [] text[i] = "FAILED"               -> "failed"
          [] OTHER                            -> text[i]]

\* bool(value), as `reason or ...` tests it
Truthy(value) ==
    CASE value[1] = "NoneType" -> FALSE
      [] value[1] = "str"      -> value[2] # <<>>
      [] value[1] = "list"     -> value[2] # <<>>
      [] value[1] = "dict"     -> DOMAIN value[2] # {}
      [] OTHER                 -> TRUE

\* dict.get(key, default)
get(dict, key, default) == IF key \in DOMAIN dict[2] THEN dict[2][key] ELSE default

\* the verdicts of evaluate_async that do not come from the script's output:
\* time limit exceeded, non-zero exit, output that is not JSON, and the
\* default reason of a failed evaluation
ReasonTimeout == PyStr(<<"timeout (10 s limit)">>)
ReasonExecutionFailed == PyStr(<<"execution failed: ", "stderr">>)
ReasonInvalidJson == PyStr(<<"output is not valid JSON: ", "output">>)
ReasonNotPassed == PyStr(<<"evaluation not passed">>)

\* CodeEvaluator.evaluate_async, given how the subprocess ended: timed_out
\* (wait_for raised TimeoutError), returncode, and stdout as what the user code
\* printed followed by json.dumps of what its evaluate returned; json.loads of
\* the stripped stdout gives that value back when nothing but whitespace was
\* printed before it and raises JSONDecodeError otherwise.  An exception other
\* than JSONDecodeError leaves evaluate_async.
evaluate_async(process) ==
    IF process.timed_out
    THEN [raised |-> NoError, killed |-> TRUE, is_passed |-> FALSE,
          reason |-> ReasonTimeout]
    ELSE IF process.returncode # 0
    THEN [raised |-> NoError, killed |-> FALSE, is_passed |-> FALSE,
          reason |-> ReasonExecutionFailed]
    ELSE IF strip(process.printed) # <<>>
    THEN [raised |-> NoError, killed |-> FALSE, is_passed |-> FALSE,
          reason |-> ReasonInvalidJson]
    ELSE IF process.returned[1] # "dict"
    THEN [raised |-> "AttributeError", killed |-> FALSE, is_passed |-> FALSE,
          reason |-> PyNone]
    ELSE IF get(process.returned, <<"result">>, PyStr(<<"failed">>))[1] # "str"
    THEN [raised |-> "AttributeError", killed |-> FALSE, is_passed |-> FALSE,
          reason |-> PyNone]
    ELSE IF lower(get(process.returned, <<"result">>, PyStr(<<"failed">>))[2])
               = <<"passed">>
    THEN [raised |-> NoError, killed |-> FALSE, is_passed |-> TRUE,
          reason |-> get(process.returned, <<"reason">>, PyStr(<<>>))]
    ELSE [raised |-> NoError, killed |-> FALSE, is_passed |-> FALSE,
          reason |-> IF Truthy(get(process.returned, <<"reason">>, PyStr(<<>>)))
                     THEN get(process.returned, <<"reason">>, PyStr(<<>>))
                     ELSE ReasonNotPassed]

(* ----------------------------- LLM client ----------------------------- *)

\* What the HTTP exchange with the model endpoint can come to.
\*   transport_error : httpx.HTTPError (timeout, connection refused, ...)
\*   non_200         : a response whose status code is not 200
\*   invalid_json    : 200, body does not parse as JSON
\*   choices         : 200, choices[0].message.content = text
\*   output          : 200, no choices, data["output"] = text
HttpOutcomes ==
    { [kind |-> "transport_error", text |-> <<>>],
      [kind |-> "non_200",         text |-> <<>>],
      [kind |-> "invalid_json",    text |-> <<"y">>],
      [kind |-> "choices",         text |-> <<"x">>],
      [kind |-> "choices",         text |-> <<"y">>],
      [kind |-> "choices",         text |-> <<>>] }

\* LlmClient.call_llm_with_stats: the content of the LlmCallResult, or None
call_llm_with_stats(http) ==
    CASE http.kind = "transport_error" -> None
      [] http.kind = "non_200"         -> None
      [] http.kind = "invalid_json"    -> <<"[JSON_PARSE_ERROR]", " ">> \o http.text
      [] http.kind = "choices"         -> IF http.text # <<>> THEN http.text ELSE None
      [] OTHER                         -> http.text

\* LlmClient.call_llm: result.content if result else None
call_llm(http) == call_llm_with_stats(http)

(* ------------------------------ test data ----------------------------- *)

\* the TestCase rows of the case set, in list order; ids are 1..n
CaseRows(n) == [k \in 1..n |-> [id |-> k, expected_output |-> <<"x">>]]

(* --------------------------- rows and records ------------------------- *)

\* the summary dictionary (pass_rate is passed/total*100 and is not modelled)
Summary(total, passed, failed) == [total |-> total, passed |-> passed, failed |-> failed]

\* no result is held by the consumer
NoPayload ==
    [index |-> 0, case_id |-> 0, actual_output |-> None, is_passed |-> FALSE,
     execution_error |-> NoError, evaluator_logs |-> <<>>, llm |-> "none"]

\* an EvalRun row as create_eval_run inserts it; `recent` is started_at >= now - 5 min
NewRun(run_number) ==
    [run_number |-> run_number, status |-> "PENDING", summary |-> NoSummary,
     error |-> NoError, recent |-> TRUE]

\* an EvalResult row (`llm` records what the HTTP exchange came to, `by` who wrote it)
ResultRowOfFirstRun(r, p, writer) ==
    [run_id |-> 1, case_id |-> p.case_id, actual_output |-> p.actual_output,
     is_passed |-> p.is_passed, execution_error |-> p.execution_error,
     evaluator_logs |-> p.evaluator_logs, llm |-> p.llm, by |-> writer]

ResultRow(r, p, writer) ==
    [run_id |-> r, case_id |-> p.case_id, actual_output |-> p.actual_output,
     is_passed |-> p.is_passed, execution_error |-> p.execution_error,
     evaluator_logs |-> p.evaluator_logs, llm |-> p.llm, by |-> writer]

\* a message handed to ws_manager.broadcast_event for the task
Event(type, r, index, is_passed, summary) ==
    [type |-> type, run |-> r, index |-> index, is_passed |-> is_passed,
     summary |-> summary]

\* the state of one run_evaluation_async background task before it is scheduled
NewWs ==
    [pc |-> "scheduled", total |-> 0, semaphore |-> 0, wpc |-> <<>>,
     result_queue |-> <<>>, results_buffer |-> {}, completed |-> 0,
     next_expected_index |-> 1, passed |-> 0, failed |-> 0,
     cpc |-> "idle", cur |-> NoPayload, summary |-> NoSummary]

(* ------------------ run_evaluation_with_ws: the pieces ----------------- *)

\* concurrency = getattr(task, 'concurrency', 1) or 1; max(1, min(concurrency, total))
EffectiveConcurrency(concurrency, total) ==
    LET c == IF concurrency = 0 THEN 1 ELSE concurrency
    IN  Max(1, Min(c, total))

\* evaluate_single_case after the template is rendered: the LLM call, the
\* evaluation, and the tuple put on result_queue.  call_llm catches every
\* exception of the HTTP exchange, so execution_error stays None.
CasePayloadPassByDefault(index, case, http) ==
    LET response == call_llm(http)
        verdict  == ExactMatchEvaluate(case.expected_output, response)
    IN  [index           |-> index,
         case_id         |-> case.id,
         actual_output   |-> response,
         is_passed       |-> IF response # None THEN verdict.passed ELSE TRUE,
         execution_error |-> NoError,
         evaluator_logs  |-> IF response # None THEN <<verdict.reason>> ELSE <<>>,
         llm             |-> http.kind]

CasePayload(index, case, http) ==
    LET response == call_llm(http)
        verdict  == ExactMatchEvaluate(case.expected_output, response)
    IN  [index           |-> index,
         case_id         |-> case.id,
         actual_output   |-> response,
         is_passed       |-> IF response # None THEN verdict.passed ELSE FALSE,
         execution_error |-> NoError,
         evaluator_logs  |-> IF response # None THEN <<verdict.reason>> ELSE <<>>,
         llm             |-> http.kind]

\* the inner loop's test `next_expected_index in results_buffer`: the buffered
\* entries the consumer takes next (one or none)
DrainAnyBuffered(buffer, next) ==
    IF buffer = {} THEN {}
    ELSE {CHOOSE p \in buffer : \A q \in buffer : q.index <= p.index}

Drain(buffer, next) == {p \in buffer : p.index = next}

\* where the consumer is after an inner-loop test with this buffer and cursor:
\* results_buffer.pop(next_expected_index) and on to the flush, or back to
\* the outer loop's test `completed < total`
ConsumerNext(w, buffer, next, completed) ==
    IF Drain(buffer, next) # {}
    THEN [w EXCEPT !.results_buffer = buffer \ Drain(buffer, next),
                   !.cur = CHOOSE p \in Drain(buffer, next) : TRUE,
                   !.completed = completed,
                   !.next_expected_index = next,
                   !.cpc = "flushing"]
    ELSE [w EXCEPT !.results_buffer = buffer,
                   !.cur = NoPayload,
                   !.completed = completed,
                   !.next_expected_index = next,
                   !.cpc = IF completed < w.total THEN "get" ELSE "finished"]

\* the rows the consumer adds to the session on entering an inner-loop iteration
ConsumerAdds(r, buffer, next) ==
    IF Drain(buffer, next) # {}
    THEN <<ResultRow(r, CHOOSE p \in Drain(buffer, next) : TRUE, "consumer")>>
    ELSE <<>>

\* results_buffer[index] = result_data
BufferPut(buffer, p) == {q \in buffer : q.index # p.index} \cup {p}

(* ------------------------- create_eval_run / rerun --------------------- *)

\* create_eval_run up to the await of the count query: run_count is read.
\* `origin` is 0 for rerun_eval_task, or the number of the stream that
\* creates the run.
CreateCount(origin) ==
    creating' = Append(creating, [origin |-> origin, run_count |-> Len(runs)])

\* the number create_eval_run gives the new run
NextRunNumber(run_count) == run_count + 1

\* the sequence without its i-th element
RemoveAt(seq, i) == SubSeq(seq, 1, i - 1) \o SubSeq(seq, i + 1, Len(seq))

\* rerun_eval_task: create_eval_run from the count's result on (the row is
\* added and flushed), then run_evaluation_async is added as a background task
RerunInsert(i) ==
    /\ i \in DOMAIN creating
    /\ creating[i].origin = 0
    /\ runs' = Append(runs, NewRun(NextRunNumber(creating[i].run_count)))
    /\ results' = Append(results, <<>>)
    /\ events' = Append(events, <<>>)
    /\ ws' = ws @@ ((Len(runs) + 1) :> NewWs)
    /\ creating' = RemoveAt(creating, i)
    /\ UNCHANGED <<task, cases, sse, manager, registry>>

\* the join of the task with its case set, model and provider finds a row
TaskResolved == task.row = "resolved"

(* --------------------------- run_evaluation_async ---------------------- *)

\* run_evaluation_async: broadcast run_created, then call run_evaluation_with_ws
RunCreatedBroadcast(r) ==
    /\ r \in DOMAIN ws
    /\ ws[r].pc = "scheduled"
    /\ events' = [events EXCEPT ![r] = Append(@, Event("run_created", r, 0, FALSE, NoSummary))]
    /\ ws' = [ws EXCEPT ![r].pc = "setup"]
    /\ UNCHANGED <<task, cases, runs, results, creating, sse, manager, registry>>

\* `if row is None`: run.status = "FAILED", run.error = "任务不存在" (the task
\* does not exist)
TaskMissingLeftPending(run) == run

TaskMissing(run) == [run EXCEPT !.status = "FAILED", !.error = "task not found"]

\* run_evaluation_with_ws up to asyncio.gather: the task row is missing
WsTaskMissing(r) ==
    /\ r \in DOMAIN ws
    /\ ws[r].pc = "setup"
    /\ ~TaskResolved
    /\ runs' = [runs EXCEPT ![r] = TaskMissing(@)]
    /\ ws' = [ws EXCEPT ![r].pc = "returned", ![r].summary = Summary(0, 0, 0)]
    /\ UNCHANGED <<task, cases, results, events, creating, sse, manager, registry>>

\* run_evaluation_with_ws up to asyncio.gather: the case set is empty
WsNoCases(r) ==
    /\ r \in DOMAIN ws
    /\ ws[r].pc = "setup"
    /\ TaskResolved
    /\ cases = <<>>
    /\ runs' = [runs EXCEPT ![r].status = "COMPLETED", ![r].summary = Summary(0, 0, 0)]
    /\ ws' = [ws EXCEPT ![r].pc = "returned", ![r].summary = Summary(0, 0, 0)]
    /\ UNCHANGED <<task, cases, results, events, creating, sse, manager, registry>>

\* run_evaluation_with_ws up to asyncio.gather: counters, semaphore, queue,
\* one task per case and the consumer task are created
WsSetup(r) ==
    /\ r \in DOMAIN ws
    /\ ws[r].pc = "setup"
    /\ TaskResolved
    /\ cases # <<>>
    /\ ws' = [ws EXCEPT ![r].pc = "gather",
                        ![r].total = Len(cases),
                        ![r].semaphore = EffectiveConcurrency(task.concurrency, Len(cases)),
                        ![r].wpc = [k \in 1..Len(cases) |-> "pending"],
                        ![r].cpc = "get"]
    /\ UNCHANGED <<task, cases, runs, results, events, creating, sse, manager, registry>>

\* the semaphore lets a waiting evaluate_single_case in
CanAcquireUngated(w) == TRUE

CanAcquire(w) == w.semaphore > 0

\* evaluate_single_case(index, case): the semaphore is acquired, the template
\* is rendered and the LLM call is issued
WorkerStart(r, k) ==
    /\ r \in DOMAIN ws
    /\ k \in DOMAIN ws[r].wpc
    /\ ws[r].wpc[k] = "pending"
    /\ CanAcquire(ws[r])
    /\ task.template_ok
    /\ ws' = [ws EXCEPT ![r].semaphore = @ - 1, ![r].wpc[k] = "calling"]
    /\ UNCHANGED <<task, cases, runs, results, events, creating, sse, manager, registry>>

\* evaluate_single_case(index, case): render_request_template raises (the
\* stored template is no JSON object); the semaphore is released on the way out
\* and the task ends with the exception
WorkerRenderRaises(r, k) ==
    /\ r \in DOMAIN ws
    /\ k \in DOMAIN ws[r].wpc
    /\ ws[r].wpc[k] = "pending"
    /\ CanAcquire(ws[r])
    /\ ~task.template_ok
    /\ ws' = [ws EXCEPT ![r].wpc[k] = "raised"]
    /\ UNCHANGED <<task, cases, runs, results, events, creating, sse, manager, registry>>

\* the rows evaluate_single_case itself adds to the session: none
WorkerAddsItsRow(r, p) == <<ResultRow(r, p, "worker")>>
WorkerAdds(r, p) == <<>>

\* evaluate_single_case(index, case): the LLM call returns, the output is
\* evaluated, the result is put on the queue and the semaphore released
WorkerFinish(r, k, http) ==
    /\ r \in DOMAIN ws
    /\ k \in DOMAIN ws[r].wpc
    /\ ws[r].wpc[k] = "calling"
    /\ ws' = [ws EXCEPT ![r].result_queue = Append(@, CasePayload(k, cases[k], http)),
                        ![r].semaphore = @ + 1,
                        ![r].wpc[k] = "done"]
    /\ results' = [results EXCEPT ![r] = @ \o WorkerAdds(r, CasePayload(k, cases[k], http))]
    /\ UNCHANGED <<task, cases, runs, events, creating, sse, manager, registry>>

\* result_consumer: result_queue.get() returns; the result is buffered and the
\* inner loop is entered (a row is added and flushed when the cursor's index
\* is in the buffer)
ConsumerGet(r) ==
    /\ r \in DOMAIN ws
    /\ ws[r].cpc = "get"
    /\ ws[r].result_queue # <<>>
    /\ LET w      == ws[r]
           buffer == BufferPut(w.results_buffer, Head(w.result_queue))
           w1     == [w EXCEPT !.result_queue = Tail(@)]
       IN  /\ ws' = [ws EXCEPT ![r] = ConsumerNext(w1, buffer, w.next_expected_index,
                                                   w.completed + 1)]
           /\ results' = [results EXCEPT ![r] = @ \o ConsumerAdds(r, buffer, w.next_expected_index)]
    /\ UNCHANGED <<task, cases, runs, events, creating, sse, manager, registry>>

\* the counters after one more result
CountResultPassedOnly(w, is_passed) ==
    IF is_passed THEN [w EXCEPT !.passed = @ + 1] ELSE w

CountResult(w, is_passed) ==
    IF is_passed THEN [w EXCEPT !.passed = @ + 1] ELSE [w EXCEPT !.failed = @ + 1]

\* result_consumer: the flush is done; the result is broadcast, the counters
\* and the cursor move on, and the inner loop is tested again
ConsumerBroadcast(r) ==
    /\ r \in DOMAIN ws
    /\ ws[r].cpc = "flushing"
    /\ LET w  == ws[r]
           w1 == CountResult(w, w.cur.is_passed)
       IN  /\ events' = [events EXCEPT ![r] = Append(@, Event("result", r, w.next_expected_index,
                                                                  w.cur.is_passed, NoSummary))]
           /\ ws' = [ws EXCEPT ![r] = ConsumerNext(w1, w.results_buffer,
                                                   w.next_expected_index + 1, w.completed)]
           /\ results' = [results EXCEPT ![r] = @ \o ConsumerAdds(r, w.results_buffer,
                                                                     w.next_expected_index + 1)]
    /\ UNCHANGED <<task, cases, runs, creating, sse, manager, registry>>

\* asyncio.gather(*evaluation_tasks) returns: every evaluate_single_case ended
GatherReturns(r) ==
    /\ r \in DOMAIN ws
    /\ ws[r].pc = "gather"
    /\ \A k \in DOMAIN ws[r].wpc : ws[r].wpc[k] = "done"
    /\ ws' = [ws EXCEPT ![r].pc = "await_consumer"]
    /\ UNCHANGED <<task, cases, runs, results, events, creating, sse, manager, registry>>

\* asyncio.gather raises the exception of an evaluate_single_case; it leaves
\* run_evaluation_with_ws and run_evaluation_async broadcasts `error`
GatherRaises(r) ==
    /\ r \in DOMAIN ws
    /\ ws[r].pc = "gather"
    /\ \E k \in DOMAIN ws[r].wpc : ws[r].wpc[k] = "raised"
    /\ events' = [events EXCEPT ![r] = Append(@, Event("error", r, 0, FALSE, NoSummary))]
    /\ ws' = [ws EXCEPT ![r].pc = "failed"]
    /\ UNCHANGED <<task, cases, runs, results, creating, sse, manager, registry>>

\* `await consumer_task` returns: result_consumer has left its outer loop
ConsumerTaskNotAwaited(w) == TRUE

ConsumerTaskDone(w) == w.cpc = "finished"

\* run_evaluation_with_ws after `await consumer_task`: the run is COMPLETED,
\* the summary is stored on the run and the task, committed and returned
WsFinalize(r) ==
    /\ r \in DOMAIN ws
    /\ ws[r].pc = "await_consumer"
    /\ ConsumerTaskDone(ws[r])
    /\ LET summary == Summary(ws[r].total, ws[r].passed, ws[r].failed)
       IN  /\ runs' = [runs EXCEPT ![r].status = "COMPLETED", ![r].summary = summary]
           /\ task' = [task EXCEPT !.summary = summary]
           /\ ws' = [ws EXCEPT ![r].pc = "returned", ![r].summary = summary]
    /\ UNCHANGED <<cases, results, events, creating, sse, manager, registry>>

\* run_evaluation_async: run_evaluation_with_ws returned; broadcast `complete`
CompleteBroadcast(r) ==
    /\ r \in DOMAIN ws
    /\ ws[r].pc = "returned"
    /\ events' = [events EXCEPT ![r] = Append(@, Event("complete", r, 0, FALSE, ws[r].summary))]
    /\ ws' = [ws EXCEPT ![r].pc = "done"]
    /\ UNCHANGED <<task, cases, runs, results, creating, sse, manager, registry>>

(* --------------------------- ConnectionManager ------------------------- *)

MaxListeners == 3
MaxEvents == 2

\* identifiers in the var_path of a placeholder
MaxParts == 3

\* characters of an expected or actual output handed to an evaluator
MaxChars == 3

\* items of the longest array handed to json_compare
MaxItems == 6

\* create and update requests on evaluators that wait for their flush together
MaxFlushing == 1

\* the task of the runs above, and a second task
TaskIds == {"t", "u"}

\* the WebSocket clients
Listeners == 1..MaxListeners

\* ConnectionManager.__init__, no send_update running, no client connected
NoSend ==
    [pc |-> "idle", event |-> 0, initial |-> {}, visited |-> {}, current |-> 0,
     disconnected |-> {}, detached |-> FALSE, audience |-> {},
     done |-> 0, aborted |-> {}, owed |-> {}]

NoConnections ==
    /\ active_connections = [t \in {} |-> {}]
    /\ sending = [t \in TaskIds |-> NoSend]
    /\ sockets = [l \in Listeners |-> [task |-> "t", state |-> "idle", since |-> 0]]
    /\ inbox = [l \in Listeners |-> <<>>]

\* ConnectionManager.disconnect for each of `websockets`: discard, and delete
\* the task's entry when its set is empty
disconnect(conns, websockets, task_id) ==
    IF task_id \notin DOMAIN conns THEN conns
    ELSE IF conns[task_id] \ websockets = {}
         THEN [k \in DOMAIN conns \ {task_id} |-> conns[k]]
         ELSE [conns EXCEPT ![task_id] = @ \ websockets]

\* websocket_eval_updates: ConnectionManager.connect accepts the socket and
\* adds it to the task's set (a new set when the task has no entry)
Connect(l, t) ==
    /\ sockets[l].state = "idle"
    /\ sockets' = [sockets EXCEPT ![l] = [task |-> t, state |-> "open",
                                          since |-> sending[t].done]]
    /\ active_connections' =
           IF t \in DOMAIN active_connections
           THEN [active_connections EXCEPT ![t] = @ \cup {l}]
           ELSE [k \in DOMAIN active_connections \cup {t} |->
                    IF k = t THEN {l} ELSE active_connections[k]]
    /\ UNCHANGED <<task, cases, runs, results, events, creating, ws, sse, registry, sending, inbox>>

\* the client of l goes away: from now on send_json on its socket raises
ClientCloses(l) ==
    /\ sockets[l].state = "open"
    /\ sockets' = [sockets EXCEPT ![l].state = "closed"]
    /\ sending' = [sending EXCEPT ![sockets[l].task].audience = @ \ {l}]
    /\ UNCHANGED <<task, cases, runs, results, events, creating, ws, sse, registry,
                   active_connections, inbox>>

\* websocket_eval_updates, except WebSocketDisconnect: ConnectionManager.disconnect.
\* A send_update iterating the task's set keeps the set object it started on.
HandlerDisconnect(l) ==
    /\ sockets[l].state = "closed"
    /\ LET t == sockets[l].task
       IN  /\ active_connections' = disconnect(active_connections, {l}, t)
           /\ sending' = [sending EXCEPT ![t].detached =
                              @ \/ (sending[t].pc # "idle" /\ t \notin DOMAIN active_connections')]
    /\ sockets' = [sockets EXCEPT ![l].state = "gone"]
    /\ UNCHANGED <<task, cases, runs, results, events, creating, ws, sse, registry, inbox>>

\* broadcast_event -> send_update for the next event of task t: nothing to do
\* without an entry for t, else the for loop yields its first connection and
\* send_json is awaited
BroadcastStart(t) ==
    /\ sending[t].pc = "idle"
    /\ sending[t].done < MaxEvents
    /\ IF t \notin DOMAIN active_connections
       THEN sending' = [sending EXCEPT ![t].done = @ + 1]
       ELSE \E l \in active_connections[t] :
                sending' = [sending EXCEPT
                               ![t].pc = "awaiting",
                               ![t].event = sending[t].done + 1,
                               ![t].initial = active_connections[t],
                               ![t].visited = {l},
                               ![t].current = l,
                               ![t].audience = {c \in active_connections[t] :
                                                    sockets[c].state = "open"}]
    /\ UNCHANGED <<task, cases, runs, results, events, creating, ws, sse, registry,
                   active_connections, sockets, inbox>>

\* the set iterator's test on every step: the set it iterates has another
\* size than when the iteration began
SetChangedSize(t) ==
    IF sending[t].detached THEN TRUE
    ELSE Cardinality(active_connections[t]) # Cardinality(sending[t].initial)

\* the connections the iterator has not yielded yet
NotVisited(t) == active_connections[t] \ sending[t].visited

\* send_json on the current connection returns: the message is delivered
Delivers(t) == sockets[sending[t].current].state = "open"

\* the clients' inboxes after the awaited send_json
AfterSendJson(t) ==
    IF Delivers(t)
    THEN [inbox EXCEPT ![sending[t].current] = Append(@, <<t, sending[t].event>>)]
    ELSE inbox

\* the connections marked for removal after the awaited send_json: the
\* current one is added when send_json raised
Disconnected(t) ==
    IF Delivers(t) THEN sending[t].disconnected
    ELSE sending[t].disconnected \cup {sending[t].current}

\* the send_update call of task t ends (normally or with an exception)
EndSend(t, raised) ==
    [sending[t] EXCEPT !.pc = "idle",
                       !.initial = {}, !.visited = {}, !.current = 0,
                       !.disconnected = {}, !.detached = FALSE, !.audience = {},
                       !.done = sending[t].event,
                       !.aborted = IF raised THEN @ \cup {sending[t].event} ELSE @,
                       !.owed = @ \cup {<<sending[t].event, l>> : l \in sending[t].audience}]

\* send_update: send_json returns or raises, the for loop yields the next
\* connection and send_json is awaited on it
SendNext(t, l) ==
    /\ sending[t].pc = "awaiting"
    /\ ~SetChangedSize(t)
    /\ l \in NotVisited(t)
    /\ inbox' = AfterSendJson(t)
    /\ sending' = [sending EXCEPT ![t].current = l,
                                  ![t].visited = @ \cup {l},
                                  ![t].disconnected = Disconnected(t)]
    /\ UNCHANGED <<task, cases, runs, results, events, creating, ws, sse, registry,
                   active_connections, sockets>>

\* send_update: send_json returns or raises, the for loop ends and the marked
\* connections are removed.  A connection added in the place of a removed one
\* while the loop ran may lie behind the iterator and is then not yielded.
SendLast(t) ==
    /\ sending[t].pc = "awaiting"
    /\ ~SetChangedSize(t)
    /\ NotVisited(t) \subseteq (active_connections[t] \ sending[t].initial)
    /\ inbox' = AfterSendJson(t)
    /\ active_connections' = disconnect(active_connections, Disconnected(t), t)
    /\ sending' = [sending EXCEPT ![t] = EndSend(t, FALSE)]
    /\ UNCHANGED <<task, cases, runs, results, events, creating, ws, sse, registry, sockets>>

\* send_update: send_json returns or raises and the for loop raises
\* RuntimeError (Set changed size during iteration); it is outside the try and
\* leaves send_update and broadcast_event, the marked connections stay
\* registered
SendRaises(t) ==
    /\ sending[t].pc = "awaiting"
    /\ SetChangedSize(t)
    /\ inbox' = AfterSendJson(t)
    /\ sending' = [sending EXCEPT ![t] = EndSend(t, TRUE)]
    /\ UNCHANGED <<task, cases, runs, results, events, creating, ws, sse, registry,
                   active_connections, sockets>>

(* --------------------------- EvaluatorService -------------------------- *)

\* the evaluator ids: 1..3 are the seeded rows, the others are for created rows
EvaluatorIds == 1..(3 + MaxCreated)

\* a field of EvaluatorUpdate that is left out (Optional[...] = None)
Unset == "None"

UnsetConfig == {"None"}

\* no call on EvaluatorService or JsonRepair has been made
NoCall == [op |-> "none", evaluator_id |-> 0, raised |-> NoError]

\* the rows insert_system_evaluators seeds, all with is_system = 1; a config
\* is modelled by the set of its keys
SeedEvaluators ==
    [id \in 1..3 |->
        [name        |-> CASE id = 1 -> "exact_match"
                           [] id = 2 -> "json_compare"
                           [] OTHER  -> "llm_judge",
         description |-> "seeded",
         type        |-> IF id = 3 THEN "llm_judge" ELSE "code",
         config      |-> IF id = 3 THEN {"prompt_template"} ELSE {"code"},
         is_system   |-> 1]]

\* the seeded evaluators table, no evaluator configured for the task
SeededRegistry ==
    /\ evaluators = SeedEvaluators
    /\ task_evaluators = <<>>
    /\ call = NoCall
    /\ flushing = {}

\* the request bodies of POST /evaluators
EvaluatorCreate ==
    [name : {"exact_match", "a", "b"}, description : {"d"},
     type : {"code", "llm_judge"}, config : {{}, {"code"}, {"prompt_template"}}]

\* the request bodies of PUT /evaluators/{id}
EvaluatorUpdate ==
    [name : {Unset, "exact_match", "a", "b"}, description : {Unset, "d2"},
     config : {UnsetConfig, {}, {"code"}}]

\* get_evaluator_by_name: the ids of the rows with this name
get_evaluator_by_nameFindsNone(table, name) == {}
get_evaluator_by_name(table, name) == {id \in DOMAIN table : table[id].name = name}

\* the type-specific config validation of create_evaluator and update_evaluator
ConfigError(type, config) ==
    IF type = "llm_judge" /\ "prompt_template" \notin config
    THEN "prompt_template required"
    ELSE IF type = "code" /\ "code" \notin config
         THEN "code required"
         ELSE NoError

\* `if evaluator.is_system:`
IsSystemNever(evaluator) == FALSE
IsSystem(evaluator) == evaluator.is_system # 0

\* create_evaluator: the ValueError it raises, or none
CreateRaises(table, data) ==
    IF get_evaluator_by_name(table, data.name) # {} THEN "name exists"
    ELSE ConfigError(data.type, data.config)

\* POST /evaluators: create_evaluator, then the commit or the rollback of
\* get_db.  id is the uuid4 default of the new row.
CreateEvaluator(id, data) ==
    /\ id \notin DOMAIN evaluators
    /\ \A i \in DOMAIN task_evaluators : task_evaluators[i] # id
    /\ evaluators' =
           IF CreateRaises(evaluators, data) # NoError THEN evaluators
           ELSE [e \in DOMAIN evaluators \cup {id} |->
                    IF e = id
                    THEN [name |-> data.name, description |-> data.description,
                          type |-> data.type, config |-> data.config, is_system |-> 0]
                    ELSE evaluators[e]]
    /\ call' = [op |-> "create_evaluator", evaluator_id |-> id,
                raised |-> CreateRaises(evaluators, data)]
    /\ UNCHANGED <<task, cases, runs, results, events, creating, ws, sse, manager,
                   task_evaluators, flushing>>

\* update_evaluator: the ValueError it raises, or none
UpdateRaises(table, id, data) ==
    IF id \notin DOMAIN table THEN "evaluator not found"
    ELSE IF IsSystem(table[id]) THEN "system evaluator"
    ELSE IF data.name # Unset /\ get_evaluator_by_name(table, data.name) \ {id} # {}
         THEN "name exists"
    ELSE IF data.config # UnsetConfig THEN ConfigError(table[id].type, data.config)
    ELSE NoError

\* the row after update_evaluator has assigned the fields that are given
Updated(evaluator, data) ==
    [evaluator EXCEPT
        !.name        = IF data.name # Unset THEN data.name ELSE @,
        !.description = IF data.description # Unset THEN data.description ELSE @,
        !.config      = IF data.config # UnsetConfig THEN data.config ELSE @]

\* PUT /evaluators/{id}: update_evaluator, then the commit of get_db, or its
\* rollback when update_evaluator raised
UpdateEvaluator(id, data) ==
    /\ evaluators' =
           IF UpdateRaises(evaluators, id, data) # NoError THEN evaluators
           ELSE [evaluators EXCEPT ![id] = Updated(@, data)]
    /\ call' = [op |-> "update_evaluator", evaluator_id |-> id,
                raised |-> UpdateRaises(evaluators, id, data)]
    /\ UNCHANGED <<task, cases, runs, results, events, creating, ws, sse, manager,
                   task_evaluators, flushing>>

\* create_evaluator up to `await self.session.flush()`: the name check and the
\* config validation have passed and the new row is in the session.  Other
\* requests run before the flush.
CreateAwaitsFlush(id, data) ==
    /\ Cardinality(flushing) < MaxFlushing
    /\ id \notin DOMAIN evaluators
    /\ \A i \in DOMAIN task_evaluators : task_evaluators[i] # id
    /\ \A request \in flushing : request.evaluator_id # id
    /\ CreateRaises(evaluators, data) = NoError
    /\ flushing' = flushing \cup {[op |-> "create_evaluator", evaluator_id |-> id,
                                    name |-> data.name, description |-> data.description,
                                    type |-> data.type, config |-> data.config]}
    /\ UNCHANGED <<task, cases, runs, results, events, creating, ws, sse, manager,
                   evaluators, task_evaluators, call>>

\* update_evaluator up to `await self.session.flush()`: the checks have passed
\* and the fields are assigned in the session
UpdateAwaitsFlush(id, data) ==
    /\ Cardinality(flushing) < MaxFlushing
    /\ \A request \in flushing : request.evaluator_id # id
    /\ UpdateRaises(evaluators, id, data) = NoError
    /\ flushing' = flushing \cup {[op |-> "update_evaluator", evaluator_id |-> id,
                                    name |-> data.name, description |-> data.description,
                                    type |-> Unset, config |-> data.config]}
    /\ UNCHANGED <<task, cases, runs, results, events, creating, ws, sse, manager,
                   evaluators, task_evaluators, call>>

\* what the flush of a waiting request raises: the UPDATE finds no row
\* (StaleDataError), or the INSERT or UPDATE breaks UNIQUE(name) of the
\* evaluators table (IntegrityError)
FlushRaises(table, request) ==
    IF request.op = "update_evaluator" /\ request.evaluator_id \notin DOMAIN table
    THEN "StaleDataError"
    ELSE IF request.name # Unset
              /\ get_evaluator_by_name(table, request.name) \ {request.evaluator_id} # {}
         THEN "IntegrityError"
         ELSE NoError

\* `await self.session.flush()` of a waiting request, then the commit of
\* get_db, or its rollback when the flush raised
Flush(request) ==
    /\ request \in flushing
    /\ flushing' = flushing \ {request}
    /\ evaluators' =
           IF FlushRaises(evaluators, request) # NoError THEN evaluators
           ELSE IF request.op = "create_evaluator"
           THEN [e \in DOMAIN evaluators \cup {request.evaluator_id} |->
                    IF e = request.evaluator_id
                    THEN [name |-> request.name, description |-> request.description,
                          type |-> request.type, config |-> request.config,
                          is_system |-> 0]
                    ELSE evaluators[e]]
           ELSE [evaluators EXCEPT ![request.evaluator_id] = Updated(@, request)]
    /\ call' = [op |-> request.op, evaluator_id |-> request.evaluator_id,
                raised |-> FlushRaises(evaluators, request)]
    /\ UNCHANGED <<task, cases, runs, results, events, creating, ws, sse, manager,
                   task_evaluators>>

\* delete_evaluator: the ValueError it raises, or none (a missing row makes
\* it return False)
DeleteRaises(table, id) ==
    IF id \in DOMAIN table /\ IsSystem(table[id]) THEN "system evaluator" ELSE NoError

\* DELETE /evaluators/{id}: delete_evaluator, then the commit or rollback.
\* The task_evaluators rows of the evaluator stay: the ON DELETE CASCADE of
\* the foreign key is not enforced (no PRAGMA foreign_keys).
DeleteEvaluator(id) ==
    /\ evaluators' =
           IF id \notin DOMAIN evaluators \/ DeleteRaises(evaluators, id) # NoError
           THEN evaluators
           ELSE [e \in DOMAIN evaluators \ {id} |-> evaluators[e]]
    /\ call' = [op |-> "delete_evaluator", evaluator_id |-> id,
                raised |-> DeleteRaises(evaluators, id)]
    /\ UNCHANGED <<task, cases, runs, results, events, creating, ws, sse, manager,
                   task_evaluators, flushing>>

\* the evaluator_ids lists of PUT /tasks/{task_id}/evaluators
EvaluatorIdLists ==
    {<<>>} \cup {<<a>> : a \in EvaluatorIds} \cup {<<a, b>> : a, b \in EvaluatorIds}

\* set_task_evaluators: the ValueError it raises, or none
SetRaises(table, evaluator_ids) ==
    IF task.row = "absent" THEN "task not found"
    ELSE IF \E i \in DOMAIN evaluator_ids : evaluator_ids[i] \notin DOMAIN table
         THEN "evaluator not found"
         ELSE NoError

\* PUT /tasks/{task_id}/evaluators: set_task_evaluators replaces the task's
\* task_evaluators rows; the list index is the order_index
SetTaskEvaluators(evaluator_ids) ==
    /\ task_evaluators' =
           IF SetRaises(evaluators, evaluator_ids) # NoError THEN task_evaluators
           ELSE evaluator_ids
    /\ call' = [op |-> "set_task_evaluators", evaluator_id |-> 0,
                raised |-> SetRaises(evaluators, evaluator_ids)]
    /\ UNCHANGED <<task, cases, runs, results, events, creating, ws, sse, manager,
                   evaluators, flushing>>

\* get_task_evaluators: the join of task_evaluators with evaluators, ordered
\* by order_index
get_task_evaluators == SelectSeq(task_evaluators, LAMBDA id : id \in DOMAIN evaluators)

(* ------------------- the concurrent path, one run ---------------------- *)

\* a task (its stored configuration) and a case set; nothing has run yet
Init ==
    /\ task \in [row : {"resolved", "unjoined", "absent"},
                 concurrency : 0..MaxConcurrency, template_ok : BOOLEAN,
                 status : {"PENDING"}, summary : {NoSummary}]
    /\ cases \in {CaseRows(n) : n \in 0..MaxCases}
    /\ runs = <<>>
    /\ results = <<>>
    /\ events = <<>>
    /\ creating = <<>>
    /\ ws = <<>>
    /\ sse = <<>>
    /\ NoConnections
    /\ SeededRegistry

\* one rerun request
RerunOnce ==
    /\ runs = <<>>
    /\ creating = <<>>
    /\ CreateCount(0)
    /\ UNCHANGED <<task, cases, runs, results, events, ws, sse, manager, registry>>

Next ==
    \/ RerunOnce
    \/ \E i \in DOMAIN creating : RerunInsert(i)
    \/ \E r \in DOMAIN ws : RunCreatedBroadcast(r)
    \/ \E r \in DOMAIN ws : WsTaskMissing(r)
    \/ \E r \in DOMAIN ws : WsNoCases(r)
    \/ \E r \in DOMAIN ws : WsSetup(r)
    \/ \E r \in DOMAIN ws, k \in 1..Len(cases) : WorkerStart(r, k)
    \/ \E r \in DOMAIN ws, k \in 1..Len(cases) : WorkerRenderRaises(r, k)
    \/ \E r \in DOMAIN ws, k \in 1..Len(cases), http \in HttpOutcomes : WorkerFinish(r, k, http)
    \/ \E r \in DOMAIN ws : ConsumerGet(r)
    \/ \E r \in DOMAIN ws : ConsumerBroadcast(r)
    \/ \E r \in DOMAIN ws : GatherReturns(r)
    \/ \E r \in DOMAIN ws : GatherRaises(r)
    \/ \E r \in DOMAIN ws : WsFinalize(r)
    \/ \E r \in DOMAIN ws : CompleteBroadcast(r)

Spec == Init /\ [][Next]_vars

\* the event loop runs every coroutine that is ready, and every request to
\* the endpoint returns or fails: a step that can be taken is taken
FairSpec == Spec /\ WF_vars(Next)

(* ---------------- stream_evaluation and _run_evaluation ---------------- *)

\* largest number of test cases in the case set (runs side by side)
MaxRunCases == 1

\* number of rerun requests
MaxReruns == 2

\* number of stream_evaluation requests
MaxStreams == 1

\* what the endpoint answers in the scenarios with several runs
RunsHttpOutcomes ==
    { [kind |-> "non_200", text |-> <<>>],
      [kind |-> "choices", text |-> <<"x">>] }

\* a stream_evaluation request that has not arrived yet
NewStream ==
    [pc |-> "idle", run |-> 0, index |-> 0, total |-> 0, passed |-> 0,
     failed |-> 0, out |-> <<>>]

\* an SSE event yielded to the client of the stream
SseEvent(type, r, summary) == [type |-> type, run |-> r, summary |-> summary]

\* .order_by(EvalRun.started_at.desc()).limit(1) over the rows in `found`
Latest(found) == CHOOSE r \in found : \A q \in found : q <= r

\* the runs of the task with status PENDING or RUNNING
ActiveRuns == {r \in DOMAIN runs : runs[r].status \in {"PENDING", "RUNNING"}}

\* the runs of the task started within the last 5 minutes
RecentRuns == {r \in DOMAIN runs : runs[r].recent}

\* stream_evaluation: the query for a PENDING or RUNNING run of the task
StreamFindActive(s) ==
    /\ sse[s].pc = "idle"
    /\ sse' = [sse EXCEPT ![s].pc = IF ActiveRuns # {} THEN "have_run" ELSE "find_recent",
                          ![s].run = IF ActiveRuns # {} THEN Latest(ActiveRuns) ELSE 0]
    /\ UNCHANGED <<task, cases, runs, results, events, creating, ws, manager, registry>>

\* stream_evaluation: the query for a run started within the last 5 minutes;
\* a COMPLETED one is answered with run_created and complete, without re-running
StreamFindRecent(s) ==
    /\ sse[s].pc = "find_recent"
    /\ sse' =
         IF RecentRuns = {} THEN [sse EXCEPT ![s].pc = "create"]
         ELSE LET r == Latest(RecentRuns)
              IN  IF runs[r].status = "COMPLETED"
                  THEN [sse EXCEPT ![s].pc = "closed",
                                   ![s].run = r,
                                   ![s].out = @ \o <<SseEvent("run_created", r, NoSummary),
                                                     SseEvent("complete", r, runs[r].summary)>>]
                  ELSE [sse EXCEPT ![s].pc = "have_run", ![s].run = r]
    /\ UNCHANGED <<task, cases, runs, results, events, creating, ws, manager, registry>>

\* stream_evaluation: create_eval_run up to the await of the count query
StreamCreateCount(s) ==
    /\ sse[s].pc = "create"
    /\ CreateCount(s)
    /\ sse' = [sse EXCEPT ![s].pc = "inserting"]
    /\ UNCHANGED <<task, cases, runs, results, events, ws, manager, registry>>

\* stream_evaluation: create_eval_run from the count's result on
StreamCreateInsert(s, i) ==
    /\ sse[s].pc = "inserting"
    /\ i \in DOMAIN creating
    /\ creating[i].origin = s
    /\ runs' = Append(runs, NewRun(NextRunNumber(creating[i].run_count)))
    /\ creating' = RemoveAt(creating, i)
    /\ results' = Append(results, <<>>)
    /\ events' = Append(events, <<>>)
    /\ sse' = [sse EXCEPT ![s].pc = "have_run", ![s].run = Len(runs) + 1]
    /\ UNCHANGED <<task, cases, ws, manager, registry>>

\* stream_evaluation: get_eval_task finds no task: an error event, and return
StreamNoTask(s) ==
    /\ sse[s].pc = "have_run"
    /\ task.row = "absent"
    /\ sse' = [sse EXCEPT ![s].pc = "closed",
                          ![s].out = Append(@, SseEvent("error", sse[s].run, NoSummary))]
    /\ UNCHANGED <<task, cases, runs, results, events, creating, ws, manager, registry>>

\* stream_evaluation: the task is set RUNNING and committed, run_created is
\* yielded and _run_evaluation is called
StreamBegin(s) ==
    /\ sse[s].pc = "have_run"
    /\ task.row # "absent"
    /\ task' = [task EXCEPT !.status = "RUNNING"]
    /\ sse' = [sse EXCEPT ![s].pc = "run",
                          ![s].out = Append(@, SseEvent("run_created", sse[s].run, NoSummary))]
    /\ UNCHANGED <<cases, runs, results, events, creating, ws, manager, registry>>

\* _run_evaluation up to the loop: the task row is missing
SseTaskMissing(s) ==
    /\ sse[s].pc = "run"
    /\ ~TaskResolved
    /\ runs' = [runs EXCEPT ![sse[s].run] = TaskMissing(@)]
    /\ sse' = [sse EXCEPT ![s].pc = "returned"]
    /\ UNCHANGED <<task, cases, results, events, creating, ws, manager, registry>>

\* _run_evaluation up to the loop: the case set is empty
SseNoCases(s) ==
    /\ sse[s].pc = "run"
    /\ TaskResolved
    /\ cases = <<>>
    /\ runs' = [runs EXCEPT ![sse[s].run].status = "COMPLETED",
                            ![sse[s].run].summary = Summary(0, 0, 0)]
    /\ sse' = [sse EXCEPT ![s].pc = "returned"]
    /\ UNCHANGED <<task, cases, results, events, creating, ws, manager, registry>>

\* _run_evaluation up to the loop: the counters are initialised
SseSetup(s) ==
    /\ sse[s].pc = "run"
    /\ TaskResolved
    /\ cases # <<>>
    /\ sse' = [sse EXCEPT ![s].pc = "loop", ![s].total = Len(cases), ![s].index = 1,
                          ![s].passed = 0, ![s].failed = 0]
    /\ UNCHANGED <<task, cases, runs, results, events, creating, ws, manager, registry>>

\* one iteration of _run_evaluation's loop after the LLM call: the verdict
\* and the counters (failed is incremented in the else branch of the
\* evaluation and again after the row is flushed)
SseCount(st, p) ==
    LET f1 == IF p.actual_output # None THEN st.failed ELSE st.failed + 1
    IN  [st EXCEPT !.passed = IF p.is_passed THEN @ + 1 ELSE @,
                   !.failed = IF p.is_passed THEN f1 ELSE f1 + 1,
                   !.index = @ + 1]

\* _run_evaluation: one iteration of the loop: render, call the LLM,
\* evaluate, add and flush the EvalResult row, count
SseCase(s, http) ==
    /\ sse[s].pc = "loop"
    /\ sse[s].index <= sse[s].total
    /\ task.template_ok
    /\ LET k == sse[s].index
           p == CasePayload(k, cases[k], http)
       IN  /\ results' = [results EXCEPT ![sse[s].run] = Append(@, ResultRow(sse[s].run, p, "sse"))]
           /\ sse' = [sse EXCEPT ![s] = SseCount(sse[s], p)]
    /\ UNCHANGED <<task, cases, runs, events, creating, ws, manager, registry>>

\* _run_evaluation: render_request_template raises and the exception leaves
\* _run_evaluation
SseRenderRaises(s) ==
    /\ sse[s].pc = "loop"
    /\ sse[s].index <= sse[s].total
    /\ ~task.template_ok
    /\ sse' = [sse EXCEPT ![s].pc = "raised"]
    /\ UNCHANGED <<task, cases, runs, results, events, creating, ws, manager, registry>>

\* _run_evaluation after the loop: the run is COMPLETED, the summary is
\* stored on the run and the task, and committed
SseFinalize(s) ==
    /\ sse[s].pc = "loop"
    /\ sse[s].index > sse[s].total
    /\ LET summary == Summary(sse[s].total, sse[s].passed, sse[s].failed)
       IN  /\ runs' = [runs EXCEPT ![sse[s].run].status = "COMPLETED",
                                   ![sse[s].run].summary = summary]
           /\ task' = [task EXCEPT !.summary = summary]
    /\ sse' = [sse EXCEPT ![s].pc = "returned"]
    /\ UNCHANGED <<cases, results, events, creating, ws, manager, registry>>

\* stream_evaluation after _run_evaluation returned: the run is refreshed,
\* complete is yielded with its summary and the task is set COMPLETED
StreamComplete(s) ==
    /\ sse[s].pc = "returned"
    /\ sse' = [sse EXCEPT ![s].pc = "closed",
                          ![s].out = Append(@, SseEvent("complete", sse[s].run,
                                                        runs[sse[s].run].summary))]
    /\ task' = [task EXCEPT !.status = "COMPLETED"]
    /\ UNCHANGED <<cases, runs, results, events, creating, ws, manager, registry>>

\* stream_evaluation, except branch: the run and the task are set FAILED and
\* error is yielded
StreamError(s) ==
    /\ sse[s].pc = "raised"
    /\ runs' = [runs EXCEPT ![sse[s].run].status = "FAILED",
                            ![sse[s].run].error = "Template must be a dictionary"]
    /\ task' = [task EXCEPT !.status = "FAILED"]
    /\ sse' = [sse EXCEPT ![s].pc = "closed",
                          ![s].out = Append(@, SseEvent("error", sse[s].run, NoSummary))]
    /\ UNCHANGED <<cases, results, events, creating, ws, manager, registry>>

\* time passes: the oldest run still within the last 5 minutes leaves them
AgeRun(r) ==
    /\ r \in DOMAIN runs
    /\ runs[r].recent
    /\ \A q \in 1..(r - 1) : ~runs[q].recent
    /\ runs' = [runs EXCEPT ![r].recent = FALSE]
    /\ UNCHANGED <<task, cases, results, events, creating, ws, sse, manager, registry>>

(* ---------------- rerun and stream requests side by side --------------- *)

InitRuns ==
    /\ task \in [row : {"resolved", "unjoined", "absent"},
                 concurrency : {1}, template_ok : BOOLEAN,
                 status : {"PENDING"}, summary : {NoSummary}]
    /\ cases \in {CaseRows(n) : n \in 0..MaxRunCases}
    /\ runs = <<>>
    /\ results = <<>>
    /\ events = <<>>
    /\ creating = <<>>
    /\ ws = <<>>
    /\ sse = [s \in 1..MaxStreams |-> NewStream]
    /\ NoConnections
    /\ SeededRegistry

\* the rerun requests that have arrived
Reruns == Cardinality(DOMAIN ws) + Cardinality({i \in DOMAIN creating : creating[i].origin = 0})

\* a rerun request arrives
RerunArrives ==
    /\ Reruns < MaxReruns
    /\ CreateCount(0)
    /\ UNCHANGED <<task, cases, runs, results, events, ws, sse, manager, registry>>

NextRuns ==
    \/ RerunArrives
    \/ \E i \in DOMAIN creating : RerunInsert(i)
    \/ \E r \in DOMAIN ws : RunCreatedBroadcast(r)
    \/ \E r \in DOMAIN ws : WsTaskMissing(r)
    \/ \E r \in DOMAIN ws : WsNoCases(r)
    \/ \E r \in DOMAIN ws : WsSetup(r)
    \/ \E r \in DOMAIN ws, k \in 1..Len(cases) : WorkerStart(r, k)
    \/ \E r \in DOMAIN ws, k \in 1..Len(cases) : WorkerRenderRaises(r, k)
    \/ \E r \in DOMAIN ws, k \in 1..Len(cases), http \in RunsHttpOutcomes : WorkerFinish(r, k, http)
    \/ \E r \in DOMAIN ws : ConsumerGet(r)
    \/ \E r \in DOMAIN ws : ConsumerBroadcast(r)
    \/ \E r \in DOMAIN ws : GatherReturns(r)
    \/ \E r \in DOMAIN ws : GatherRaises(r)
    \/ \E r \in DOMAIN ws : WsFinalize(r)
    \/ \E r \in DOMAIN ws : CompleteBroadcast(r)
    \/ \E s \in DOMAIN sse : StreamFindActive(s)
    \/ \E s \in DOMAIN sse : StreamFindRecent(s)
    \/ \E s \in DOMAIN sse : StreamCreateCount(s)
    \/ \E s \in DOMAIN sse, i \in DOMAIN creating : StreamCreateInsert(s, i)
    \/ \E s \in DOMAIN sse : StreamNoTask(s)
    \/ \E s \in DOMAIN sse : StreamBegin(s)
    \/ \E s \in DOMAIN sse : SseTaskMissing(s)
    \/ \E s \in DOMAIN sse : SseNoCases(s)
    \/ \E s \in DOMAIN sse : SseSetup(s)
    \/ \E s \in DOMAIN sse, http \in RunsHttpOutcomes : SseCase(s, http)
    \/ \E s \in DOMAIN sse : SseRenderRaises(s)
    \/ \E s \in DOMAIN sse : SseFinalize(s)
    \/ \E s \in DOMAIN sse : StreamComplete(s)
    \/ \E s \in DOMAIN sse : StreamError(s)
    \/ \E r \in DOMAIN runs : AgeRun(r)

SpecRuns == InitRuns /\ [][NextRuns]_vars

(* ------------------ two reruns of the task side by side ---------------- *)

InitReruns ==
    /\ task \in [row : {"resolved", "unjoined", "absent"},
                 concurrency : 1..MaxPairCases, template_ok : BOOLEAN,
                 status : {"PENDING"}, summary : {NoSummary}]
    /\ cases \in {CaseRows(n) : n \in 0..MaxPairCases}
    /\ runs = <<>>
    /\ results = <<>>
    /\ events = <<>>
    /\ creating = <<>>
    /\ ws = <<>>
    /\ sse = <<>>
    /\ NoConnections
    /\ SeededRegistry

NextReruns ==
    \/ RerunArrives
    \/ \E i \in DOMAIN creating : RerunInsert(i)
    \/ \E r \in DOMAIN ws : RunCreatedBroadcast(r)
    \/ \E r \in DOMAIN ws : WsTaskMissing(r)
    \/ \E r \in DOMAIN ws : WsNoCases(r)
    \/ \E r \in DOMAIN ws : WsSetup(r)
    \/ \E r \in DOMAIN ws, k \in 1..Len(cases) : WorkerStart(r, k)
    \/ \E r \in DOMAIN ws, k \in 1..Len(cases) : WorkerRenderRaises(r, k)
    \/ \E r \in DOMAIN ws, k \in 1..Len(cases), http \in RunsHttpOutcomes : WorkerFinish(r, k, http)
    \/ \E r \in DOMAIN ws : ConsumerGet(r)
    \/ \E r \in DOMAIN ws : ConsumerBroadcast(r)
    \/ \E r \in DOMAIN ws : GatherReturns(r)
    \/ \E r \in DOMAIN ws : GatherRaises(r)
    \/ \E r \in DOMAIN ws : WsFinalize(r)
    \/ \E r \in DOMAIN ws : CompleteBroadcast(r)

SpecReruns == InitReruns /\ [][NextReruns]_vars

(* ------------- WebSocket clients and broadcasts side by side ----------- *)

\* no run yet, no client connected, no event broadcast
InitListeners ==
    /\ task \in [row : {"resolved"}, concurrency : {1}, template_ok : {TRUE},
                 status : {"PENDING"}, summary : {NoSummary}]
    /\ cases = CaseRows(MaxEvents)
    /\ runs = <<>>
    /\ results = <<>>
    /\ events = <<>>
    /\ creating = <<>>
    /\ ws = <<>>
    /\ sse = <<>>
    /\ NoConnections
    /\ SeededRegistry

NextListeners ==
    \/ \E l \in Listeners, t \in TaskIds : Connect(l, t)
    \/ \E l \in Listeners : ClientCloses(l)
    \/ \E l \in Listeners : HandlerDisconnect(l)
    \/ \E t \in TaskIds : BroadcastStart(t)
    \/ \E t \in TaskIds, l \in Listeners : SendNext(t, l)
    \/ \E t \in TaskIds : SendLast(t)
    \/ \E t \in TaskIds : SendRaises(t)

SpecListeners == InitListeners /\ [][NextListeners]_vars

(* ------------------------- JsonRepair.repair calls --------------------- *)

\* what the texts handed to repair are made of
Tokens ==
    {Fence, <<"j", "s", "o", "n">>, <<"1">>, <<"\"">>, <<"'">>, <<" ">>, <<",">>,
     <<"[">>, <<"]">>}

\* the texts of at most n tokens
RECURSIVE Texts(_)
Texts(n) ==
    IF n = 0 THEN {<<>>}
    ELSE Texts(n - 1) \cup {t \o token : t \in Texts(n - 1), token \in Tokens}

\* a caller holds a text and is about to hand it to JsonRepair.repair
InitRepair ==
    /\ task \in [row : {"resolved"}, concurrency : {1}, template_ok : {TRUE},
                 status : {"PENDING"}, summary : {NoSummary}]
    /\ cases = <<>>
    /\ runs = <<>>
    /\ results = <<>>
    /\ events = <<>>
    /\ creating = <<>>
    /\ ws = <<>>
    /\ sse = <<>>
    /\ NoConnections
    /\ evaluators = SeedEvaluators
    /\ task_evaluators = <<>>
    /\ flushing = {}
    /\ call \in {[op |-> "repair", pc |-> "called", json_str |-> x, out |-> None,
                  again |-> None] : x \in Texts(MaxTokens)}

\* repaired = JsonRepair.repair(json_str)
Repair ==
    /\ call.op = "repair"
    /\ call.pc = "called"
    /\ call' = [call EXCEPT !.pc = "returned", !.out = repair(call.json_str)]
    /\ UNCHANGED <<task, cases, runs, results, events, creating, ws, sse, manager,
                   evaluators, task_evaluators, flushing>>

\* JsonRepair.repair(repaired), the text a first call returned handed in again
RepairAgain ==
    /\ call.op = "repair"
    /\ call.pc = "returned"
    /\ call.out # None
    /\ call' = [call EXCEPT !.pc = "repeated", !.again = repair(call.out)]
    /\ UNCHANGED <<task, cases, runs, results, events, creating, ws, sse, manager,
                   evaluators, task_evaluators, flushing>>

NextRepair ==
    \/ Repair
    \/ RepairAgain

SpecRepair == InitRepair /\ [][NextRepair]_vars

(* ------------------- calls on the pure components ----------------------- *)

\* no task is running and nothing is stored: the state in which the pure
\* components (renderer, evaluators) are called on their own
NothingStored ==
    /\ task \in [row : {"resolved"}, concurrency : {1}, template_ok : {TRUE},
                 status : {"PENDING"}, summary : {NoSummary}]
    /\ cases = <<>>
    /\ runs = <<>>
    /\ results = <<>>
    /\ events = <<>>
    /\ creating = <<>>
    /\ ws = <<>>
    /\ sse = <<>>
    /\ NoConnections
    /\ evaluators = SeedEvaluators
    /\ task_evaluators = <<>>
    /\ flushing = {}

\* the identifiers a var_path is made of
Identifiers ==
    {<<"model_name">>, <<"case">>, <<"user_input">>, <<"description">>, <<"upper">>}

\* var_paths of up to n identifiers joined by "."
RECURSIVE VarPaths(_)
VarPaths(n) ==
    IF n = 0 THEN {}
    ELSE Identifiers
           \cup {p \o <<".">> \o w : p \in VarPaths(n - 1), w \in Identifiers}

\* "${" var_path "}"
Placeholder(var_path) == <<"$", "{">> \o var_path \o <<"}">>

\* the strings of a template: literal text, text the pattern does not match,
\* one placeholder, and a placeholder between literal text and a second one
TemplateTexts ==
    {<<"Hi">>, <<"$", "{", "}">>, <<"$", "case", "}">>}
      \cup {Placeholder(p) : p \in VarPaths(MaxParts)}
      \cup {<<"Hi", " ">> \o Placeholder(p) \o <<"$", "{", "}">>
                \o Placeholder(<<"case", ".", "description">>)
              : p \in VarPaths(MaxParts)}

\* request templates with the string in a top-level field or inside a list of
\* objects (task.request_template_dict), and values that are not a mapping
Templates ==
    UNION {{PyDict([k \in {<<"model">>} |-> PyStr(text)]),
            PyDict([k \in {<<"messages">>, <<"n">>} |->
                      IF k = <<"n">> THEN PyInt(<<"1">>)
                      ELSE PyList(<<PyDict([c \in {<<"content">>} |-> PyStr(text)]),
                                    PyNone>>)]),
            PyList(<<PyStr(text)>>),
            PyStr(text)} : text \in TemplateTexts}

\* contexts of the shape evaluate_single_case builds, and contexts in which
\* model_name or case is missing or None
Contexts ==
    {PyDict([k \in keys |-> IF k = <<"model_name">> THEN model_name ELSE case])
       : keys \in {{<<"model_name">>, <<"case">>}, {<<"model_name">>}, {<<"case">>}},
         model_name \in {PyStr(<<"gpt-4">>), PyNone},
         case \in {PyNone}
                   \cup {PyDict([k \in {<<"user_input">>, <<"description">>} |->
                                   IF k = <<"user_input">> THEN user_input
                                   ELSE description])
                          : user_input \in {PyStr(<<"Hi">>), PyInt(<<"5">>)},
                            description \in {PyStr(<<"d">>), PyNone}}}

InitRender ==
    /\ NothingStored
    /\ call \in {[op |-> "render", pc |-> "called", template |-> template,
                  context |-> context, raised |-> NoError, rendered |-> PyNone,
                  resolved |-> <<>>]
                 : template \in Templates, context \in Contexts}

\* rendered_request = renderer.render_request_template(template, context);
\* resolved keeps what _resolve_variable returned for each var_path
Render ==
    /\ call.op = "render"
    /\ call.pc = "called"
    /\ call' = [call EXCEPT
                  !.pc = "returned",
                  !.raised = render_request_template(call.template, call.context).raised,
                  !.rendered = render_request_template(call.template, call.context).rendered,
                  !.resolved =
                      IF call.template[1] # "dict" THEN <<>>
                      ELSE [p \in Matches(call.template) |->
                              _resolve_variable(p, call.context)]]
    /\ UNCHANGED <<task, cases, runs, results, events, creating, ws, sse, manager,
                   evaluators, task_evaluators, flushing>>

NextRender ==
    \/ Render

SpecRender == InitRender /\ [][NextRender]_vars

\* what the evaluate function of the user code returns: a JSON object with or
\* without `result` and `reason`, or a value that is no object
Returned ==
    {PyList(<<PyInt(<<"1">>)>>), PyStr(<<"passed">>), PyInt(<<"5">>), PyNone}
      \cup {PyDict([k \in keys |-> IF k = <<"result">> THEN result ELSE reason])
              : keys \in SUBSET {<<"result">>, <<"reason">>},
                result \in {PyStr(<<"passed">>), PyStr(<<"PASSED">>), PyStr(<<"Passed">>),
                            PyStr(<<"failed">>), PyStr(<<"ok">>), PyInt(<<"1">>), PyNone},
                reason \in {PyStr(<<"r">>), PyStr(<<>>), PyNone}}

\* how the subprocess of one evaluation ends
Processes ==
    [timed_out : BOOLEAN, returncode : {0, 1},
     printed : {<<>>, <<" ">>, <<"x">>}, returned : Returned]

InitCode ==
    /\ NothingStored
    /\ call \in {[op |-> "evaluate_async", pc |-> "called", process |-> process,
                  raised |-> NoError, killed |-> FALSE, is_passed |-> FALSE,
                  reason |-> PyNone] : process \in Processes}

\* is_passed, reason = await evaluator.evaluate_async(expected, actual)
EvaluateAsync ==
    /\ call.op = "evaluate_async"
    /\ call.pc = "called"
    /\ call' = [call EXCEPT
                  !.pc = IF evaluate_async(call.process).raised = NoError
                         THEN "returned" ELSE "raised",
                  !.raised = evaluate_async(call.process).raised,
                  !.killed = evaluate_async(call.process).killed,
                  !.is_passed = evaluate_async(call.process).is_passed,
                  !.reason = evaluate_async(call.process).reason]
    /\ UNCHANGED <<task, cases, runs, results, events, creating, ws, sse, manager,
                   evaluators, task_evaluators, flushing>>

NextCode ==
    \/ EvaluateAsync

SpecCode == InitCode /\ [][NextCode]_vars

\* the strings of up to n characters out of two letters and two kinds of
\* whitespace
RECURSIVE Strings(_)
Strings(n) ==
    IF n = 0 THEN {<<>>}
    ELSE Strings(n - 1)
           \cup {Append(s, c) : s \in Strings(n - 1), c \in {"a", "b"} \cup Whitespace}

InitExact ==
    /\ NothingStored
    /\ call \in {[op |-> "exact_match", pc |-> "called", expected |-> expected,
                  actual |-> actual, passed |-> FALSE, reason |-> NoError]
                 : expected \in Strings(MaxChars), actual \in Strings(MaxChars)}

\* is_passed, reason = ExactMatchEvaluator().evaluate(expected, actual)
ExactMatch ==
    /\ call.op = "exact_match"
    /\ call.pc = "called"
    /\ call' = [call EXCEPT
                  !.pc = "returned",
                  !.passed = ExactMatchEvaluate(call.expected, call.actual).passed,
                  !.reason = ExactMatchEvaluate(call.expected, call.actual).reason]
    /\ UNCHANGED <<task, cases, runs, results, events, creating, ws, sse, manager,
                   evaluators, task_evaluators, flushing>>

NextExact ==
    \/ ExactMatch

SpecExact == InitExact /\ [][NextExact]_vars

\* json.dumps(value): the JSON text of a value
RECURSIVE dumps(_), DumpItems(_), DumpMembers(_, _)
dumps(value) ==
    CASE value[1] = "int"      -> value[2]
      [] value[1] = "str"      -> <<"\"">> \o value[2] \o <<"\"">>
      [] value[1] = "NoneType" -> <<"n", "u", "l", "l">>
      [] value[1] = "list"     -> <<"[">> \o DumpItems(value[2]) \o <<"]">>
      [] value[1] = "dict"     ->
             <<"{">> \o DumpMembers(value[2], Listed(DOMAIN value[2])) \o <<"}">>

DumpItems(items) ==
    IF items = <<>> THEN <<>>
    ELSE IF Len(items) = 1 THEN dumps(Head(items))
    ELSE dumps(Head(items)) \o <<",", " ">> \o DumpItems(Tail(items))

DumpMembers(dict, keys) ==
    IF keys = <<>> THEN <<>>
    ELSE <<"\"">> \o Head(keys) \o <<"\"", ":", " ">> \o dumps(dict[Head(keys)])
           \o (IF Len(keys) = 1 THEN <<>> ELSE <<",", " ">> \o DumpMembers(dict, Tail(keys)))

\* the object with the given value under each of the keys
Object(keys, value) == PyDict([k \in keys |-> value])

\* JSON values: numbers, a string, null, arrays (up to MaxItems items) and
\* objects with the keys k and x, one level nested
JsonValues ==
    LET leaves == {PyInt(<<"1">>), PyInt(<<"1", "1">>), PyStr(<<"a">>), PyNone}
    IN  leaves
          \cup {PyList(<<>>), PyList(<<PyInt(<<"1">>), PyStr(<<"a">>)>>),
                PyList(<<PyInt(<<"1">>), PyInt(<<"1", "1">>)>>)}
          \cup {PyList([i \in 1..MaxItems |-> v]) : v \in {PyInt(<<"1">>), PyInt(<<"1", "1">>)}}
          \cup {Object(keys, v) : keys \in SUBSET {<<"k">>, <<"x">>}, v \in leaves}
          \cup {Object({<<"k">>}, PyList(<<v>>)) : v \in leaves}
          \cup {Object({<<"k">>}, Object({<<"x">>}, v)) : v \in leaves}
          \cup {PyDict([key \in {<<"k">>, <<"x">>} |->
                          IF key = <<"k">> THEN PyInt(<<"1">>) ELSE PyNone])}

\* expected outputs: nothing, text that is not JSON, and JSON texts
ExpectedTexts ==
    {<<>>, <<" ">>, <<"x">>} \cup {dumps(v) : v \in JsonValues}

\* actual outputs: nothing, text that is not JSON, JSON texts, JSON texts in a
\* markdown fence, with whitespace around them, and without their last
\* character
ActualTexts ==
    {<<>>, <<" ">>, <<"x">>}
      \cup {dumps(v) : v \in JsonValues}
      \cup {Fence \o <<"j", "s", "o", "n", " ">> \o dumps(v) \o <<" ">> \o Fence
              : v \in JsonValues}
      \cup {<<" ">> \o dumps(v) \o <<"\t">> : v \in JsonValues}
      \cup {SubSeq(dumps(v), 1, Len(dumps(v)) - 1) : v \in JsonValues}

InitCompare ==
    /\ NothingStored
    /\ call \in {[op |-> "json_compare", pc |-> "called", expected |-> expected,
                  actual |-> actual, passed |-> FALSE, reason |-> NoError,
                  listed |-> <<>>, differences |-> <<>>]
                 : expected \in ExpectedTexts, actual \in ActualTexts}

\* is_passed, reason = JsonCompareEvaluator().evaluate(expected, actual);
\* differences keeps what _deep_compare returned when evaluate called it
JsonCompare ==
    /\ call.op = "json_compare"
    /\ call.pc = "called"
    /\ call' = [call EXCEPT
                  !.pc = "returned",
                  !.passed = JsonCompareEvaluate(call.expected, call.actual).passed,
                  !.reason = JsonCompareEvaluate(call.expected, call.actual).reason,
                  !.listed = JsonCompareEvaluate(call.expected, call.actual).listed,
                  !.differences =
                      IF call.expected # <<>> /\ json_loads(call.expected).ok
                            /\ _parse_json(call.actual).ok
                            /\ _parse_json(call.actual).val # PyNone
                      THEN _deep_compare(json_loads(call.expected).val,
                                         _parse_json(call.actual).val, <<>>)
                      ELSE <<>>]
    /\ UNCHANGED <<task, cases, runs, results, events, creating, ws, sse, manager,
                   evaluators, task_evaluators, flushing>>

NextCompare ==
    \/ JsonCompare

SpecCompare == InitCompare /\ [][NextCompare]_vars

(* ---------------------- calls on EvaluatorService ---------------------- *)

\* the seeded table and a task; no request has been made
InitRegistry ==
    /\ task \in [row : {"resolved"}, concurrency : {1}, template_ok : {TRUE},
                 status : {"PENDING"}, summary : {NoSummary}]
    /\ cases = <<>>
    /\ runs = <<>>
    /\ results = <<>>
    /\ events = <<>>
    /\ creating = <<>>
    /\ ws = <<>>
    /\ sse = <<>>
    /\ NoConnections
    /\ SeededRegistry

NextRegistry ==
    \/ \E id \in EvaluatorIds, data \in EvaluatorCreate : CreateEvaluator(id, data)
    \/ \E id \in EvaluatorIds, data \in EvaluatorUpdate : UpdateEvaluator(id, data)
    \/ \E id \in EvaluatorIds : DeleteEvaluator(id)
    \/ \E evaluator_ids \in EvaluatorIdLists : SetTaskEvaluators(evaluator_ids)

SpecRegistry == InitRegistry /\ [][NextRegistry]_vars

(* --------------- a task is configured, then it is run ------------------ *)

\* the request bodies that create a code evaluator
CodeCreate == {data \in EvaluatorCreate : data.type = "code" /\ data.config = {"code"}}

\* the request bodies that rename an evaluator or replace its config
Renames == {data \in EvaluatorUpdate : data.description = Unset}

\* create, update and delete requests on the evaluators table, one after the
\* other or with other requests between their checks and their flush
NextNames ==
    \/ \E id \in EvaluatorIds, data \in CodeCreate : CreateEvaluator(id, data)
    \/ \E id \in EvaluatorIds, data \in Renames : UpdateEvaluator(id, data)
    \/ \E id \in EvaluatorIds : DeleteEvaluator(id)
    \/ \E id \in EvaluatorIds, data \in CodeCreate : CreateAwaitsFlush(id, data)
    \/ \E id \in EvaluatorIds, data \in Renames : UpdateAwaitsFlush(id, data)
    \/ \E request \in flushing : Flush(request)

SpecNames == InitRegistry /\ [][NextNames]_vars

\* PUT /tasks/{task_id}/evaluators before the task's rerun is requested
ConfigureTask(evaluator_ids) ==
    /\ runs = <<>>
    /\ creating = <<>>
    /\ SetTaskEvaluators(evaluator_ids)

NextConfigured ==
    \/ \E evaluator_ids \in EvaluatorIdLists : ConfigureTask(evaluator_ids)
    \/ RerunOnce
    \/ \E i \in DOMAIN creating : RerunInsert(i)
    \/ \E r \in DOMAIN ws : RunCreatedBroadcast(r)
    \/ \E r \in DOMAIN ws : WsTaskMissing(r)
    \/ \E r \in DOMAIN ws : WsNoCases(r)
    \/ \E r \in DOMAIN ws : WsSetup(r)
    \/ \E r \in DOMAIN ws, k \in 1..Len(cases) : WorkerStart(r, k)
    \/ \E r \in DOMAIN ws, k \in 1..Len(cases) : WorkerRenderRaises(r, k)
    \/ \E r \in DOMAIN ws, k \in 1..Len(cases), http \in HttpOutcomes : WorkerFinish(r, k, http)
    \/ \E r \in DOMAIN ws : ConsumerGet(r)
    \/ \E r \in DOMAIN ws : ConsumerBroadcast(r)
    \/ \E r \in DOMAIN ws : GatherReturns(r)
    \/ \E r \in DOMAIN ws : GatherRaises(r)
    \/ \E r \in DOMAIN ws : WsFinalize(r)
    \/ \E r \in DOMAIN ws : CompleteBroadcast(r)

SpecConfigured == InitRuns /\ [][NextConfigured]_vars

(* ------------------------------ observers ------------------------------ *)

\* the EvalResult rows of run r, in creation order
RunRows(r) == results[r]

\* the EvalResult rows of run r added by result_consumer, in creation order
ConsumerRows(r) == SelectSeq(results[r], LAMBDA row : row.by = "consumer")

\* the `result` events broadcast for run r, in order
ResultEvents(r) == SelectSeq(events[r], LAMBDA e : e.type = "result")

\* the cases of run r inside `async with semaphore`
InFlight(r) == {k \in DOMAIN ws[r].wpc : ws[r].wpc[k] = "calling"}

\* the LLM call gave no content
LlmGaveNothing(row) == row.actual_output = None

Terminal == {"COMPLETED", "FAILED"}

(* ------------------------------- claims -------------------------------- *)

\* C1: for every interleaving of worker completions, the rows the consumer
\* adds for a run and the `result` events broadcast for it carry the indices
\* 1, 2, ..., n in ascending order without gap or repeat; index k is
\* persisted and broadcast only after every index below k, and a completed
\* run has all n of each.
C1_ResultsInIndexOrder ==
    \A r \in DOMAIN ws :
        LET rows == ConsumerRows(r)
            evs  == ResultEvents(r)
        IN  /\ Len(rows) <= Len(cases)
            /\ \A i \in 1..Len(rows) : rows[i].case_id = cases[i].id
            /\ \A i \in 1..Len(evs) : evs[i].index = i
            /\ Len(evs) <= Len(rows)
            /\ Len(rows) <= Len(evs) + 1
            /\ runs[r].status = "COMPLETED" =>
                   Len(rows) = Len(cases) /\ Len(evs) = Len(cases)

\* C1 witness: index 3 completed before index 2 and waits in the buffer,
\* while index 1 is already persisted and broadcast
C1_Witness ==
    \E r \in DOMAIN ws :
        /\ ws[r].next_expected_index = 2
        /\ Drain(ws[r].results_buffer, 3) # {}
        /\ Len(ResultEvents(r)) = 1

\* C2: at every instant the number of cases inside the gated section is at
\* most max(1, min(c, T)), and the gate (free slots plus cases inside) has
\* exactly that size: at least 1 when c is 0 or unset, clamped to T when c > T.
C2_ConcurrencyBound ==
    \A r \in DOMAIN ws :
        ws[r].total >= 1 =>
            LET N == Max(1, Min(task.concurrency, ws[r].total))
            IN  /\ Cardinality(InFlight(r)) <= N
                /\ ws[r].semaphore >= 0
                /\ ws[r].semaphore + Cardinality(InFlight(r)) = N

\* C2 witness: concurrency 2 with 3 cases, two cases inside the gate and the
\* third waiting for it
C2_Witness ==
    \E r \in DOMAIN ws :
        /\ task.concurrency = 2
        /\ ws[r].total = 3
        /\ Cardinality(InFlight(r)) = 2
        /\ \E k \in DOMAIN ws[r].wpc : ws[r].wpc[k] = "pending"

\* C3: when the LLM call of some case gave no content, no exception leaves
\* the run, and once run_evaluation_with_ws has returned the run is COMPLETED
\* with summary.total = n, every case without content has is_passed = false,
\* and every other case's verdict is that of its own output.
C3_LlmFailureIsolated ==
    \A r \in DOMAIN ws :
        (\E i \in DOMAIN results[r] : LlmGaveNothing(results[r][i])) =>
            /\ ws[r].pc # "failed"
            /\ ws[r].pc \in {"returned", "done"} =>
                   /\ runs[r].status = "COMPLETED"
                   /\ runs[r].summary.total = Len(cases)
                   /\ Len(ConsumerRows(r)) = Len(cases)
                   /\ \A i \in 1..Len(ConsumerRows(r)) :
                          LET row == ConsumerRows(r)[i]
                          IN  row.is_passed =
                                  (/\ ~LlmGaveNothing(row)
                                   /\ join(split(cases[i].expected_output))
                                          = join(split(row.actual_output)))

\* C3 witness: a finished run of 3 cases where the call of case 2 failed and
\* cases 1 and 3 passed
C3_Witness ==
    \E r \in DOMAIN ws :
        /\ ws[r].pc = "done"
        /\ Len(ConsumerRows(r)) = 3
        /\ ConsumerRows(r)[2].llm = "transport_error"
        /\ ConsumerRows(r)[1].is_passed
        /\ ConsumerRows(r)[3].is_passed
        /\ runs[r].status = "COMPLETED"

\* C4: for every run run_evaluation_with_ws completes, summary.total is the
\* number of cases of the case set and summary.passed + summary.failed is
\* summary.total (the summary returned, and the one stored on the run).
C4_CountConservation ==
    \A r \in DOMAIN ws :
        ws[r].pc \in {"returned", "done"} /\ runs[r].status = "COMPLETED" =>
            /\ ws[r].summary.total = Len(cases)
            /\ ws[r].summary.passed + ws[r].summary.failed = ws[r].summary.total
            /\ ws[r].pc = "returned" => runs[r].summary = ws[r].summary

\* C4 witness: a completed run of 3 cases with a passing, a failing and an
\* errored case
C4_Witness ==
    \E r \in DOMAIN ws :
        /\ ws[r].pc = "returned"
        /\ runs[r].status = "COMPLETED"
        /\ runs[r].summary = Summary(3, 1, 2)
        /\ \E i \in DOMAIN results[r] : LlmGaveNothing(results[r][i])
        /\ \E i \in DOMAIN results[r] :
               ~LlmGaveNothing(results[r][i]) /\ ~results[r][i].is_passed

\* C5: once run_evaluation_with_ws has started on a non-empty case set, under
\* fair scheduling the run eventually has a terminal status (COMPLETED or
\* FAILED) and the consumer has drained every index 1..n; no per-case outcome
\* leaves it PENDING/RUNNING forever.
C5_RunReachesTerminalStatus ==
    (ws # <<>> /\ ws[1].pc = "gather")
        ~> (/\ ws # <<>>
            /\ runs[1].status \in Terminal
            /\ ws[1].next_expected_index = Len(cases) + 1)

\* C6: a template-render failure never leaves the per-case worker: no
\* evaluate_single_case task ends with an exception and asyncio.gather never
\* raises.
C6_CaseFailureContained ==
    \A r \in DOMAIN ws :
        /\ ws[r].pc # "failed"
        /\ \A k \in DOMAIN ws[r].wpc : ws[r].wpc[k] # "raised"

\* C7: actual_output is null exactly when the LLM call failed (timeout,
\* transport error, non-2xx status, unparseable response), and whenever it is
\* null execution_error is set.
C7_NullOutputHasError ==
    \A r \in DOMAIN results : \A i \in DOMAIN results[r] :
        /\ LlmGaveNothing(results[r][i]) <=>
               results[r][i].llm \in {"transport_error", "non_200", "invalid_json"}
        /\ LlmGaveNothing(results[r][i]) => results[r][i].execution_error # NoError

\* the EvalResult rows of run r for the case with this id
RowsOfCase(r, case_id) == {i \in DOMAIN results[r] : results[r][i].case_id = case_id}

\* C8: after any sequence of rerun and stream_evaluation requests there is at
\* most one EvalResult per (run_id, case_id), and a COMPLETED run has exactly
\* one EvalResult per case of its case set.
C8_OneResultPerRunAndCase ==
    \A r \in DOMAIN runs : \A k \in DOMAIN cases :
        /\ Cardinality(RowsOfCase(r, cases[k].id)) <= 1
        /\ runs[r].status = "COMPLETED" => Cardinality(RowsOfCase(r, cases[k].id)) = 1

\* C9: for any interleaving of create_eval_run calls the run numbers of the
\* task's runs are pairwise distinct, the first is 1, and each new run's
\* number is greater than that of every run created before it.
C9_RunNumbersIncrease ==
    /\ runs # <<>> => runs[1].run_number = 1
    /\ \A i, j \in DOMAIN runs : i < j => runs[i].run_number < runs[j].run_number

\* C10: whenever a run is COMPLETED, summary.total is the number of its
\* EvalResult rows, summary.passed the number of those with is_passed = true
\* and summary.failed the number with is_passed = false.
C10_SummaryMatchesRows ==
    \A r \in DOMAIN runs :
        runs[r].status = "COMPLETED" =>
            /\ runs[r].summary.total = Len(results[r])
            /\ runs[r].summary.passed =
                   Cardinality({i \in DOMAIN results[r] : results[r][i].is_passed})
            /\ runs[r].summary.failed =
                   Cardinality({i \in DOMAIN results[r] : ~results[r][i].is_passed})


\* C11: once a run's status is COMPLETED or FAILED, no later step (rerun,
\* stream_evaluation, run_evaluation_with_ws, _run_evaluation) changes its
\* status, summary or error or adds an EvalResult row to it.
C11_TerminalRunImmutable ==
    [][\A r \in DOMAIN runs :
           runs[r].status \in Terminal =>
               /\ runs'[r].status = runs[r].status
               /\ runs'[r].summary = runs[r].summary
               /\ runs'[r].error = runs[r].error
               /\ results'[r] = results[r]]_vars


\* the positions of the events of run r with one of these types
EventsOfType(r, types) == {i \in DOMAIN events[r] : events[r][i].type \in types}

Received(l) == {inbox[l][i] : i \in DOMAIN inbox[l]}

\* the clients that were registered for t, with an open socket, throughout
\* every broadcast of t that has ended
Throughout(t) ==
    {l \in Listeners : /\ sockets[l].task = t
                        /\ \A e \in 1..sending[t].done : <<e, l>> \in sending[t].owed}

\* C13 (another task): no client receives an event of a task it is not
\* registered for
C13_OnlyOwnTask ==
    \A l \in Listeners : \A m \in Received(l) : m[1] = sockets[l].task

\* C13 (late listener): a client never receives an event whose broadcast
\* had ended before it connected
C13_NoEarlierEvent ==
    \A l \in Listeners : \A m \in Received(l) : m[2] > sockets[l].since

\* C13: every event broadcast for task t is sent to every listener registered
\* for t while the broadcast runs and to no listener of another task; two
\* listeners registered for t for the whole run receive the same event
\* sequence; a listener that connects after an event was broadcast never
\* receives that event.
C13_BroadcastReachesListeners ==
    /\ \A t \in TaskIds : \A m \in sending[t].owed : <<t, m[1]>> \in Received(m[2])
    /\ C13_OnlyOwnTask
    /\ \A t \in TaskIds : sending[t].pc = "idle" =>
           \A l1, l2 \in Throughout(t) : inbox[l1] = inbox[l2]
    /\ C13_NoEarlierEvent


StreamFailed(s) ==
    /\ sse[s].pc = "closed"
    /\ task.row # "absent"
    /\ sse[s].out # <<>>
    /\ sse[s].out[Len(sse[s].out)].type = "error"

\* C15: when an exception escapes the execution of a run, the run ends FAILED
\* with run.error set to the exception's message and the task's status is
\* FAILED, on the WebSocket path (run_evaluation_async) and on the SSE path
\* (stream_evaluation).
C15_EscapedExceptionFailsRun ==
    /\ \A r \in DOMAIN ws :
           ws[r].pc = "failed" =>
               /\ runs[r].status = "FAILED"
               /\ runs[r].error # NoError
               /\ task.status = "FAILED"
    /\ \A s \in DOMAIN sse :
           StreamFailed(s) =>
               /\ runs[sse[s].run].status = "FAILED"
               /\ runs[sse[s].run].error # NoError
               /\ task.status = "FAILED"

\* C20: JsonRepair.repair applied to a text that already parses as JSON
\* returns that text unchanged, and repair is idempotent: a text that a call
\* returned is returned unchanged when it is handed to repair again.
C20_RepairKeepsValidJson ==
    /\ (call.op = "repair" /\ call.pc # "called" /\ _is_valid_json(call.json_str))
           => call.out = call.json_str
    /\ (call.op = "repair" /\ call.pc = "repeated") => call.again = call.out

\* C19: whatever update_evaluator and delete_evaluator calls are made, every
\* evaluator with is_system set stays present with its name, description,
\* type and config unchanged, and each such call on a system evaluator raises.
C19_SystemEvaluatorsKept ==
    /\ \A id \in DOMAIN SeedEvaluators :
           /\ SeedEvaluators[id].is_system = 1
           /\ id \in DOMAIN evaluators
           /\ evaluators[id] = SeedEvaluators[id]
    /\ (/\ call.op \in {"update_evaluator", "delete_evaluator"}
        /\ call.evaluator_id \in DOMAIN SeedEvaluators) => call.raised # NoError

\* a created evaluator has been renamed, and then a delete of a system
\* evaluator has been refused
C19_Witness ==
    /\ call.op = "delete_evaluator"
    /\ call.evaluator_id \in DOMAIN SeedEvaluators
    /\ call.raised # NoError
    /\ \E id \in DOMAIN evaluators : evaluators[id].is_system = 0

\* the names of the evaluators configured for the task in order_index order,
\* or the single exact-match evaluator of a task without configuration
Pipeline ==
    IF get_task_evaluators = <<>> THEN <<"exact_match">>
    ELSE [k \in DOMAIN get_task_evaluators |-> evaluators[get_task_evaluators[k]].name]

\* every evaluator of the pipeline has a built-in implementation
PipelineBuiltIn == \A k \in DOMAIN Pipeline : Pipeline[k] \in BuiltIn

\* the verdict of the k-th evaluator of the pipeline on a result row
Verdict(row, k) ==
    _get_evaluator(Pipeline[k], cases[row.case_id].expected_output, row.actual_output)

\* C16: is_passed is true iff the LLM call produced a non-null actual_output
\* without error and the task's evaluator pipeline passed on (expected_output,
\* actual_output); with a null actual_output the evaluators are not run,
\* is_passed is false and evaluator_logs is empty.
C16_PassedIffPipelinePassed ==
    \A r \in DOMAIN results : \A i \in DOMAIN results[r] :
        LET row == results[r][i]
        IN  /\ row.actual_output = None =>
                   (~row.is_passed /\ row.evaluator_logs = <<>>)
            /\ PipelineBuiltIn =>
                   (row.is_passed <=>
                       /\ row.actual_output # None
                       /\ row.execution_error = NoError
                       /\ \A k \in DOMAIN Pipeline : Verdict(row, k).passed)

\* C17: a run of a task with configured evaluators applies every one of them
\* to each case: evaluator_logs holds one entry per configured evaluator in
\* order_index order and is_passed is the AND of their verdicts; a task
\* without configured evaluators gets the single exact-match evaluator.
C17_ConfiguredEvaluatorsApplied ==
    \A r \in DOMAIN results : \A i \in DOMAIN results[r] :
        LET row == results[r][i]
        IN  row.actual_output # None =>
                /\ Len(row.evaluator_logs) = Len(Pipeline)
                /\ PipelineBuiltIn =>
                       /\ \A k \in DOMAIN Pipeline :
                              row.evaluator_logs[k] = Verdict(row, k).reason
                       /\ row.is_passed <=> \A k \in DOMAIN Pipeline : Verdict(row, k).passed

\* the row a run executing alone persists for its k-th case when the HTTP
\* exchange of that case comes to http
AloneRow(r, k, http) ==
    [run_id |-> r, case_id |-> cases[k].id,
     actual_output |-> CasePayload(k, cases[k], http).actual_output,
     is_passed |-> CasePayload(k, cases[k], http).is_passed,
     execution_error |-> CasePayload(k, cases[k], http).execution_error,
     evaluator_logs |-> CasePayload(k, cases[k], http).evaluator_logs,
     llm |-> http.kind, by |-> "consumer"]

RECURSIVE SameShape(_, _)
SameShape(template, rendered) ==
    IF template[1] # rendered[1] THEN FALSE
    ELSE CASE template[1] = "dict" ->
                  /\ DOMAIN template[2] = DOMAIN rendered[2]
                  /\ \A k \in DOMAIN template[2] : SameShape(template[2][k], rendered[2][k])
           [] template[1] = "list" ->
                  /\ Len(template[2]) = Len(rendered[2])
                  /\ \A i \in DOMAIN template[2] : SameShape(template[2][i], rendered[2][i])
           [] template[1] = "str" -> TRUE
           [] OTHER -> template = rendered

\* the dotted path hits, at some step, a value that is not a mapping, a key
\* that is missing, or a null
RECURSIVE HitsNothing(_, _)
HitsNothing(parts, value) ==
    IF parts = <<>> THEN FALSE
    ELSE IF value[1] # "dict" THEN TRUE
    ELSE IF Head(parts) \notin DOMAIN value[2] THEN TRUE
    ELSE IF value[2][Head(parts)] = PyNone THEN TRUE
    ELSE HitsNothing(Tail(parts), value[2][Head(parts)])

\* C21: rendering a template whose top level is a mapping returns, without
\* raising, a structure of the same shape, and every placeholder whose dotted
\* path hits a missing key, a null or a non-container at some step has been
\* replaced by the empty string.
C21_RenderTotal ==
    (call.op = "render" /\ call.pc = "returned" /\ call.template[1] = "dict") =>
        /\ call.raised = NoError
        /\ SameShape(call.template, call.rendered)
        /\ \A p \in DOMAIN call.resolved :
              HitsNothing(split_dots(p), call.context) => call.resolved[p] = <<>>

\* the subprocess exited 0 and printed a JSON object whose `result` is a string
\* equal to "passed" when case is ignored
PrintsPassed(process) ==
    /\ ~process.timed_out
    /\ process.returncode = 0
    /\ process.printed \in {<<>>, <<" ">>}
    /\ process.returned[1] = "dict"
    /\ <<"result">> \in DOMAIN process.returned[2]
    /\ process.returned[2][<<"result">>]
          \in {PyStr(<<"passed">>), PyStr(<<"PASSED">>), PyStr(<<"Passed">>)}

\* C22: evaluate_async never raises; whatever the subprocess did, it returns a
\* verdict, which is pass exactly when the subprocess exited 0 and printed a
\* JSON object whose `result` is "passed" in any case; every other outcome is
\* a fail verdict with a reason, and a timed out process has been killed.
C22_CodeVerdict ==
    (call.op = "evaluate_async" /\ call.pc # "called") =>
        /\ call.raised = NoError
        /\ call.is_passed <=> PrintsPassed(call.process)
        /\ ~call.is_passed => Truthy(call.reason)
        /\ call.process.timed_out => call.killed

\* the string with every run of whitespace turned into one space, as
\* ExactMatchEvaluator computes it
Normalized(text) == join(split(text))

\* the reasons of C23 for empty sides
EmptySides ==
    /\ (call.expected = <<>> /\ call.actual = <<>>) =>
          (call.passed /\ call.reason = "Both empty")
    /\ (call.expected = <<>> /\ call.actual # <<>>) =>
          (~call.passed /\ call.reason = "Expected output is empty")
    /\ (call.expected # <<>> /\ call.actual = <<>>) =>
          (~call.passed /\ call.reason = "Actual output is empty")

\* C23 as stated: evaluate passes exactly when the two strings are equal after
\* whitespace normalization; two empty strings pass with "Both empty"; exactly
\* one empty side fails with a reason naming it.
C23_ExactMatchAsStated ==
    (call.op = "exact_match" /\ call.pc = "returned") =>
        /\ call.passed <=> (Normalized(call.expected) = Normalized(call.actual))
        /\ EmptySides

\* C23, amended: evaluate passes exactly when both strings are empty, or
\* neither is empty and they are equal after whitespace normalization; two
\* empty strings pass with "Both empty"; exactly one empty side fails with a
\* reason naming it, also when the other side is nothing but whitespace.
C23_ExactMatch ==
    (call.op = "exact_match" /\ call.pc = "returned") =>
        /\ call.passed <=>
              \/ (call.expected = <<>> /\ call.actual = <<>>)
              \/ /\ call.expected # <<>>
                 /\ call.actual # <<>>
                 /\ Normalized(call.expected) = Normalized(call.actual)
        /\ EmptySides

\* two different strings passed because they are equal once normalized
C23_Witness ==
    /\ call.op = "exact_match"
    /\ call.pc = "returned"
    /\ call.passed
    /\ call.expected # call.actual
    /\ call.reason = "Exact match"

\* the differences between two parsed JSON values, each with its path: a type
\* mismatch, a missing key, an extra key, an array length mismatch, a leaf
\* value mismatch
RECURSIVE Mismatches(_, _, _)
Mismatches(expected, actual, path) ==
    IF expected[1] # actual[1]
    THEN {[path |-> path, difference |-> "Type mismatch"]}
    ELSE CASE expected[1] = "dict" ->
                  {[path |-> Append(path, <<"key", k>>), difference |-> "Missing key"]
                     : k \in DOMAIN expected[2] \ DOMAIN actual[2]}
                    \cup {[path |-> Append(path, <<"key", k>>), difference |-> "Extra key"]
                            : k \in DOMAIN actual[2] \ DOMAIN expected[2]}
                    \cup UNION {Mismatches(expected[2][k], actual[2][k],
                                           Append(path, <<"key", k>>))
                                  : k \in DOMAIN expected[2] \cap DOMAIN actual[2]}
           [] expected[1] = "list" ->
                  IF Len(expected[2]) # Len(actual[2])
                  THEN {[path |-> path, difference |-> "Length mismatch"]}
                  ELSE UNION {Mismatches(expected[2][i], actual[2][i],
                                         Append(path, <<"index", i - 1>>))
                                : i \in DOMAIN expected[2]}
           [] OTHER ->
                  IF expected = actual THEN {}
                  ELSE {[path |-> path, difference |-> "Value mismatch"]}

\* C24: json_compare passes exactly when expected is empty or not valid JSON,
\* or actual parses (directly or after repair) to a structure with no
\* difference from expected; when both parse, every mismatch is recorded once,
\* with its path, and a failing reason lists at most the first 5 differences.
C24_JsonCompare ==
    (call.op = "json_compare" /\ call.pc = "returned") =>
        LET expected == json_loads(call.expected)
            actual   == _parse_json(call.actual)
        IN  /\ call.passed <=>
                  \/ call.expected = <<>>
                  \/ ~expected.ok
                  \/ (actual.ok /\ Mismatches(expected.val, actual.val, <<>>) = {})
            /\ (call.expected # <<>> /\ expected.ok /\ actual.ok) =>
                  /\ {call.differences[i] : i \in DOMAIN call.differences}
                        = Mismatches(expected.val, actual.val, <<>>)
                  /\ Len(call.differences)
                        = Cardinality(Mismatches(expected.val, actual.val, <<>>))
            /\ Len(call.listed) <= MaxListed
            /\ call.listed = SubSeq(call.differences, 1, Len(call.listed))
            /\ (~call.passed /\ call.differences # <<>>) => call.listed # <<>>

\* no two stored evaluators share a name
NamesUnique(table) ==
    \A a, b \in DOMAIN table : table[a].name = table[b].name => a = b

\* C25: whatever create and update requests are made, no two stored evaluators
\* share a name, and a create or a rename that would duplicate the name of
\* another stored evaluator raises and leaves the stored evaluators unchanged.
C25_NamesStayUnique ==
    [][/\ NamesUnique(evaluators)
       /\ NamesUnique(evaluators')
       /\ \A id \in EvaluatorIds, data \in CodeCreate :
             (CreateEvaluator(id, data)
                /\ \E e \in DOMAIN evaluators : evaluators[e].name = data.name)
               => (call'.raised # NoError /\ evaluators' = evaluators)
       /\ \A id \in EvaluatorIds, data \in Renames :
             (UpdateEvaluator(id, data)
                /\ \E e \in DOMAIN evaluators \ {id} : evaluators[e].name = data.name)
               => (call'.raised # NoError /\ evaluators' = evaluators)
       /\ \A request \in flushing :
             (Flush(request)
                /\ \E e \in DOMAIN evaluators \ {request.evaluator_id} :
                      evaluators[e].name = request.name)
               => (call'.raised # NoError /\ evaluators' = evaluators)
      ]_vars

\* a rename to the name of another stored evaluator, and a create that lost the
\* race for its name, have been refused: two created evaluators are stored
\* and the last call raised
C25_Witness ==
    /\ Cardinality(DOMAIN evaluators) = 3 + MaxCreated
    /\ call.op \in {"create_evaluator", "update_evaluator"}
    /\ call.raised \in {"name exists", "IntegrityError"}

\* C26: for every run _run_evaluation (the SSE path) completes, the stored
\* summary has total = number of cases and passed + failed = total, also when
\* the LLM returned no output for some case.
C26_SseCountConservation ==
    \A s \in DOMAIN sse :
        (sse[s].pc \in {"returned", "closed"} /\ runs[sse[s].run].status = "COMPLETED"
           /\ sse[s].index > sse[s].total) =>
            /\ runs[sse[s].run].summary.total = Len(cases)
            /\ runs[sse[s].run].summary.passed + runs[sse[s].run].summary.failed
                  = runs[sse[s].run].summary.total

\* the passed and failed counters of run r together
Counted(w) == w.passed + w.failed

\* C27: within one run of run_evaluation_with_ws every EvalResult row, every
\* `result` event and every change of the passed/failed counters comes from a
\* step of the single consumer, never from a step of a per-case worker; at
\* most one result is between its write and its broadcast at any instant; and
\* the counters move by one, for the index the cursor stands on, only when
\* that index has been written and broadcast in order.
C27_ConsumerIsTheOnlyWriter ==
    [][\A r \in DOMAIN ws :
          LET rows     == results[r]
              rowsNext == results'[r]
              evs      == SelectSeq(events[r], LAMBDA e : e.type = "result")
              evsNext  == SelectSeq(events'[r], LAMBDA e : e.type = "result")
              w        == ws[r]
              wNext    == ws'[r]
          IN  /\ (rowsNext # rows \/ evsNext # evs \/ Counted(wNext) # Counted(w)
                     \/ wNext.passed # w.passed) =>
                    /\ w.cpc \in {"get", "flushing"}
                    /\ wNext.wpc = w.wpc
                    /\ wNext.semaphore = w.semaphore
                    /\ Len(rowsNext) <= Len(rows) + 1
                    /\ \A i \in DOMAIN rowsNext : rowsNext[i].by = "consumer"
              /\ Len(rows) - Len(evs) \in {0, 1}
              /\ (Len(rows) - Len(evs) = 1) <=> (w.cpc = "flushing")
              /\ Counted(w) = Len(evs)
              /\ Counted(wNext) # Counted(w) =>
                    /\ Counted(wNext) = Counted(w) + 1
                    /\ wNext.next_expected_index = w.next_expected_index + 1
                    /\ Len(rows) = w.next_expected_index
                    /\ rows[w.next_expected_index].case_id = cases[w.next_expected_index].id
                    /\ Len(evsNext) = w.next_expected_index
                    /\ evsNext[w.next_expected_index].index = w.next_expected_index
                    /\ wNext.passed = w.passed + 1 <=> rows[w.next_expected_index].is_passed
      ]_vars

\* C27 witness: the consumer has counted case 1 and is between the write and
\* the broadcast of case 2 while case 3, which finished before it, waits in
\* the buffer
C27_Witness ==
    \E r \in DOMAIN ws :
        /\ ws[r].cpc = "flushing"
        /\ ws[r].next_expected_index = 2
        /\ Counted(ws[r]) = 1
        /\ \E p \in ws[r].results_buffer : p.index = 3
        /\ Len(results[r]) = 2

\* the clients registered for task t (none without an entry for t)
Registered(t) ==
    IF t \in DOMAIN active_connections THEN active_connections[t] ELSE {}

\* a step on which the send_update call of task t returns or raises
SendUpdateEnds(t) == sending[t].pc = "awaiting" /\ sending'[t].pc = "idle"

\* a client connected to t or was removed from t since send_update began
Churned(t) == sending[t].detached \/ active_connections[t] # sending[t].initial

\* C28: a listener connecting to or disconnecting from task t while
\* send_update for t is suspended inside a send never makes the broadcast
\* fail: it ends without raising, and afterwards active_connections[t] holds
\* exactly the listeners still connected whose send did not fail.
C28_BroadcastSurvivesChurn ==
    [][\A t \in TaskIds :
          (SendUpdateEnds(t) /\ Churned(t)) =>
              /\ sending'[t].aborted = sending[t].aborted
              /\ Registered(t)' = Registered(t) \ Disconnected(t)
      ]_vars

\* C28 (same size): when the set has the size it had when the loop began, the
\* broadcast ends without raising and the connections whose send failed are
\* removed
C28_SameSizeSurvives ==
    [][\A t \in TaskIds :
          (SendUpdateEnds(t) /\ Churned(t) /\ ~SetChangedSize(t)) =>
              /\ sending'[t].aborted = sending[t].aborted
              /\ Registered(t)' = Registered(t) \ Disconnected(t)
      ]_vars

\* the send_update call of task t had a send_json that raised
SendFailed(t) == Disconnected(t) # {}

\* what C29 says of the step that ends a send_update with a failed send
FailureContained(t) ==
    /\ \A l \in sending[t].audience : <<t, sending[t].event>> \in Received(l)'
    /\ Registered(t)' \cap Disconnected(t) = {}
    /\ t \in DOMAIN active_connections' => active_connections'[t] # {}
    /\ sending'[t].aborted = sending[t].aborted

\* C29: when sending an event to one listener of a task fails, send_update
\* still delivers the event to every other listener of the task, removes the
\* failed listener (and the task's entry once no listener is left) and does
\* not raise.
C29_FailedSendIsContained ==
    [][\A t \in TaskIds : (SendUpdateEnds(t) /\ SendFailed(t)) => FailureContained(t)]_vars

\* C29 (still set): the same, for a send_update during which no client
\* connected to the task or was removed from it
C29_ContainedWithoutChurn ==
    [][\A t \in TaskIds :
          (SendUpdateEnds(t) /\ SendFailed(t) /\ ~Churned(t)) => FailureContained(t)]_vars

\* the runs stream_evaluation looks for: PENDING or RUNNING, or started
\* within the last 5 minutes
Attachable == ActiveRuns \cup RecentRuns

\* run_evaluation_with_ws is executing the cases of run r
Processing(r) == r \in DOMAIN ws /\ ws[r].pc \in {"gather", "await_consumer"}

\* a step on which stream s settles which run it works on
StreamSettles(s) ==
    sse[s].pc \in {"idle", "find_recent"} /\ sse'[s].pc \in {"have_run", "closed"}

\* C30 (no new run): stream_evaluation inserts no run while the task has a
\* PENDING or RUNNING run or one started within the last 5 minutes
C30_NoRunBesideAttachable ==
    [][\A s \in DOMAIN sse :
          (sse[s].pc = "inserting" /\ sse'[s].pc = "have_run") => Attachable = {}]_vars

\* C30 (completed): when the most recent such run is COMPLETED the stream
\* yields run_created and complete with the stored summary and ends
C30_CompletedIsOnlyReported ==
    [][\A s \in DOMAIN sse :
          (StreamSettles(s) /\ Attachable # {}
             /\ runs[Latest(Attachable)].status = "COMPLETED") =>
              /\ sse'[s].pc = "closed"
              /\ sse'[s].out = <<SseEvent("run_created", Latest(Attachable), NoSummary),
                                 SseEvent("complete", Latest(Attachable),
                                          runs[Latest(Attachable)].summary)>>
              /\ results' = results]_vars

\* C30 (one executor): _run_evaluation executes no case of a run whose cases
\* run_evaluation_with_ws is executing
C30_NoCaseOfProcessedRun ==
    [][\A s \in DOMAIN sse :
          (sse[s].pc = "loop" /\ sse'[s].index = sse[s].index + 1) =>
              ~Processing(sse[s].run)]_vars

\* C30: stream_evaluation never creates a new run for a task that already has
\* a PENDING or RUNNING run or a run started within the last 5 minutes; when
\* the most recent such run is COMPLETED it only emits run_created followed
\* by complete with the stored summary and executes no case again; and it
\* never executes the cases of a run another execution is processing.
C30_StreamAttachesSafely ==
    [][\A s \in DOMAIN sse :
          /\ (sse[s].pc = "inserting" /\ sse'[s].pc = "have_run") => Attachable = {}
          /\ (StreamSettles(s) /\ Attachable # {}
                 /\ runs[Latest(Attachable)].status = "COMPLETED") =>
                  /\ sse'[s].pc = "closed"
                  /\ Len(sse'[s].out) = 2
                  /\ sse'[s].out[1] = SseEvent("run_created", Latest(Attachable), NoSummary)
                  /\ sse'[s].out[2] = SseEvent("complete", Latest(Attachable),
                                               runs[Latest(Attachable)].summary)
                  /\ results' = results
          /\ (sse[s].pc = "loop" /\ sse'[s].index = sse[s].index + 1) =>
                  ~Processing(sse[s].run)]_vars

====
